---------------------------- MODULE Spec2Model ----------------------------
(***************************************************************************)
(* A model of the solana-dex-parser core: the BinaryReader cursor, the     *)
(* TransactionAdapter (account keys, signers, balance-change maps), the    *)
(* InstructionClassifier, the Pumpfun / Pumpswap event parsers and the     *)
(* Pumpswap trade builders.                                                *)
(*                                                                         *)
(* Each component has its own specification (SpecReader, SpecTrade,        *)
(* SpecAdapter, SpecParser, SpecClassifier): the components are pure and   *)
(* share no state, so each is explored on its own while the variables of   *)
(* the others rest at their idle values.                                   *)
(***************************************************************************)
EXTENDS Integers, Sequences, FiniteSets

VARIABLES
    overflow_checks,  \* build profile: TRUE = debug (arithmetic overflow panics)
    buffer,           \* BinaryReader.buffer
    offset,           \* BinaryReader.offset
    last_read,        \* outcome of the last BinaryReader operation
    trade,            \* the last Pumpswap trade build: <<>> or <<[event, built]>>
    tx,               \* the SolanaTransaction given to TransactionAdapter::new
    adapter,          \* the constructed TransactionAdapter: <<>> or <<adapter>>
    view,             \* the value returned by the last adapter getter
    instructions,     \* the classified instructions given to parse_instructions
    parsed,           \* the value returned by the last parse_instructions / process_trades
    ctx,              \* instructions and transfers given to the classifier / SimpleMemeParser
    runs,             \* the outputs of the parsing runs made so far (one entry per run)
    ids,              \* the value returned by the last get_all_program_ids
    encoded,          \* the data string given to decode_instruction_data
    decode_result     \* the value returned by decode_instruction_data: <<>> or <<result>>

readerVars == <<buffer, offset, last_read>>
tradeVars == <<trade>>
adapterVars == <<tx, adapter, view>>
parserVars == <<instructions, parsed>>
classifierVars == <<ctx, runs, ids>>
decodeVars == <<encoded, decode_result>>
vars == <<overflow_checks, readerVars, tradeVars, adapterVars, parserVars, classifierVars,
          decodeVars>>

\* An Option is a sequence: <<>> for None, <<x>> for Some(x).  Where the payload is
\* a plain string the string None stands for the absent value.
None == "None"

(***************************************************************************)
(* Generic helpers.                                                        *)
(***************************************************************************)
Range(s) == {s[i] : i \in 1..Len(s)}

SeqsUpTo(S, n) == UNION {[1..k -> S] : k \in 0..n}

Min(a, b) == IF a < b THEN a ELSE b

RECURSIVE Pow(_, _)
Pow(b, e) == IF e = 0 THEN 1 ELSE b * Pow(b, e - 1)

RECURSIVE SumSeq(_)
SumSeq(s) == IF s = <<>> THEN 0 ELSE s[1] + SumSeq(Tail(s))

(***************************************************************************)
(* Integer widths.  TLC's integers are 32-bit, so the 64-bit words of the  *)
(* program are modelled with narrower words that wrap the same way.        *)
(***************************************************************************)
UsizeBits == 28
UsizeMod == Pow(2, UsizeBits)

U64Bits == 10
U64Mod == Pow(2, U64Bits)
U64Max == U64Mod - 1

(***************************************************************************)
(* Decimal strings.  A string is a sequence of one-character strings.      *)
(* to_string is Rust's Display for integers, ParseU64 / ParseI128 are     *)
(* str::parse:                                                             *)
(* an optional sign followed by at least one decimal digit, else failure.  *)
(***************************************************************************)
Digits == <<"0", "1", "2", "3", "4", "5", "6", "7", "8", "9">>

DigitChar(d) == Digits[d + 1]

IsDigit(c) == \E d \in 0..9 : Digits[d + 1] = c

DigitVal(c) == CHOOSE d \in 0..9 : Digits[d + 1] = c

RECURSIVE NatToString(_)
NatToString(n) == IF n < 10 THEN <<DigitChar(n)>>
                  ELSE Append(NatToString(n \div 10), DigitChar(n % 10))

to_string(n) == IF n < 0 THEN <<"-">> \o NatToString(-n) ELSE NatToString(n)

RECURSIVE DigitsValue(_)
DigitsValue(s) == IF s = <<>> THEN 0
                  ELSE 10 * DigitsValue(SubSeq(s, 1, Len(s) - 1)) + DigitVal(s[Len(s)])

AllDigits(s) == s # <<>> /\ \A i \in 1..Len(s) : IsDigit(s[i])

\* str::parse::<u64>(): Some(value) as <<value>>, a failure as <<>>; a leading
\* '+' is accepted.
ParseU64(s) ==
    IF s # <<>> /\ s[1] = "+"
    THEN IF AllDigits(Tail(s)) THEN <<DigitsValue(Tail(s))>> ELSE <<>>
    ELSE IF AllDigits(s) THEN <<DigitsValue(s)>> ELSE <<>>

\* str::parse::<i128>(): accepts a leading '+' or '-'.
ParseI128(s) ==
    IF s # <<>> /\ s[1] \in {"-", "+"}
    THEN IF AllDigits(Tail(s))
         THEN <<(IF s[1] = "-" THEN -1 ELSE 1) * DigitsValue(Tail(s))>>
         ELSE <<>>
    ELSE ParseU64(s)

UnwrapOr(opt, d) == IF opt = <<>> THEN d ELSE opt[1]

\* A HashMap is a function on its set of keys.
Has(m, k) == k \in DOMAIN m

Put(m, k, v) == [x \in (DOMAIN m) \cup {k} |-> IF x = k THEN v ELSE m[x]]

Remove(m, k) == [x \in (DOMAIN m) \ {k} |-> m[x]]

EmptyMap == <<>>

(***************************************************************************)
(* BinaryReader (protocols/pumpfun/binary_reader.rs).                      *)
(*                                                                         *)
(* A read is a pure operator of (buffer, offset) giving an outcome record: *)
(*   kind      "ok", "err" (the Err the read returns) or "panic"           *)
(*   offset    the reader's offset after the call                          *)
(*   bytes     the bytes handed to the caller (empty unless "ok")          *)
(*   requested the count given to the failing check_bounds                 *)
(*   at        the offset at which the read started                        *)
(***************************************************************************)
Outcome(op, kind, error, off, bytes, requested, at) ==
    [op |-> op, kind |-> kind, error |-> error, offset |-> off, bytes |-> bytes,
     requested |-> requested, at |-> at]

\* check_bounds is Ok (TRUE) unless offset + length > buffer.len(); the sum is a
\* usize and wraps in a build without overflow checks.
check_bounds(buf, off, length) == ((off + length) % UsizeMod) <= Len(buf)

\* The mutant of read_fixed_array: the bytes are handed out and the offset stays.
read_fixed_array_peek(buf, off, length) ==
    IF overflow_checks /\ off + length >= UsizeMod
    THEN Outcome("read_fixed_array", "panic", "overflow", off, <<>>, length, off)
    ELSE IF ~check_bounds(buf, off, length)
    THEN Outcome("read_fixed_array", "err", "BufferOverrun", off, <<>>, length, off)
    ELSE LET end == (off + length) % UsizeMod
         IN IF end < off \/ end > Len(buf)
            THEN Outcome("read_fixed_array", "panic", "slice", off, <<>>, length, off)
            ELSE Outcome("read_fixed_array", "ok", None, off,
                         SubSeq(buf, off + 1, end), length, off)

\* With overflow checks the sum of check_bounds panics when it overflows;
\* without them the wrapped sum passes the check and the slice
\* buffer[offset..offset + length] panics because its end is below its start.
read_fixed_array(buf, off, length) ==
    IF overflow_checks /\ off + length >= UsizeMod
    THEN Outcome("read_fixed_array", "panic", "overflow", off, <<>>, length, off)
    ELSE IF ~check_bounds(buf, off, length)
    THEN Outcome("read_fixed_array", "err", "BufferOverrun", off, <<>>, length, off)
    ELSE LET end == (off + length) % UsizeMod
         IN IF end < off \/ end > Len(buf)
            THEN Outcome("read_fixed_array", "panic", "slice", off, <<>>, length, off)
            ELSE Outcome("read_fixed_array", "ok", None, end,
                         SubSeq(buf, off + 1, end), length, off)

\* The fixed-size reads have the shape of read_fixed_array with a constant length.
read_u8(buf, off) == [read_fixed_array(buf, off, 1) EXCEPT !.op = "read_u8"]

read_u16(buf, off) == [read_fixed_array(buf, off, 2) EXCEPT !.op = "read_u16"]

read_u64(buf, off) == [read_fixed_array(buf, off, 8) EXCEPT !.op = "read_u64"]

read_i64(buf, off) == [read_fixed_array(buf, off, 8) EXCEPT !.op = "read_i64"]

read_pubkey(buf, off) == [read_fixed_array(buf, off, 32) EXCEPT !.op = "read_pubkey"]

\* The little-endian u32 of four bytes, as a usize.  A value of 2^16 or more is
\* read as 2^16: it is beyond every buffer of the model either way, and the
\* exact value would leave TLC's integers.
LeU32(b) == IF b[3] = 0 /\ b[4] = 0 THEN b[1] + 256 * b[2] ELSE 65536

\* String::from_utf8: well-formed UTF-8 (RFC 3629).
RECURSIVE Utf8From(_, _)
Utf8From(b, i) ==
    IF i > Len(b) THEN TRUE
    ELSE LET c == b[i]
             In(j, lo, hi) == j <= Len(b) /\ b[j] >= lo /\ b[j] <= hi
         IN  IF c < 128 THEN Utf8From(b, i + 1)
             ELSE IF c >= 194 /\ c <= 223
                  THEN In(i + 1, 128, 191) /\ Utf8From(b, i + 2)
             ELSE IF c >= 224 /\ c <= 239
                  THEN /\ In(i + 1, IF c = 224 THEN 160 ELSE 128,
                                    IF c = 237 THEN 159 ELSE 191)
                       /\ In(i + 2, 128, 191)
                       /\ Utf8From(b, i + 3)
             ELSE IF c >= 240 /\ c <= 244
                  THEN /\ In(i + 1, IF c = 240 THEN 144 ELSE 128,
                                    IF c = 244 THEN 143 ELSE 191)
                       /\ In(i + 2, 128, 191)
                       /\ In(i + 3, 128, 191)
                       /\ Utf8From(b, i + 4)
             ELSE FALSE

Utf8Valid(b) == Utf8From(b, 1)

\* read_string: the u32 length prefix, then that many bytes, then UTF-8 decoding.
\* The offset moves past the prefix before the second check_bounds, and past
\* the bytes before from_utf8.
read_string(buf, off) ==
    LET head == read_fixed_array(buf, off, 4)
    IN  IF head.kind # "ok"
        THEN [head EXCEPT !.op = "read_string"]
        ELSE LET length == LeU32(head.bytes)
                 body == read_fixed_array(buf, head.offset, length)
             IN  IF body.kind # "ok"
                 THEN [body EXCEPT !.op = "read_string", !.at = off]
                 ELSE IF Utf8Valid(body.bytes)
                 THEN Outcome("read_string", "ok", None, body.offset, body.bytes, length, off)
                 ELSE Outcome("read_string", "err", "Utf8", body.offset, <<>>, length, off)

remaining(buf, off) == IF Len(buf) >= off THEN Len(buf) - off ELSE 0

(***************************************************************************)
(* The reader as a state machine: BinaryReader::new on a byte buffer, then *)
(* any sequence of reads.                                                  *)
(***************************************************************************)
MaxShort == 5
MaxReq == 3

ByteVals == {0, 1, 200}

LongLens == {8, 34}

Buffers == SeqsUpTo(ByteVals, MaxShort) \cup {[i \in 1..n |-> 0] : n \in LongLens}

\* Lengths given to read_fixed_array: small ones, a pubkey's, and the top of usize.
FixedLens == (0..MaxReq) \cup {32, UsizeMod - 2, UsizeMod - 1}

NoRead == Outcome("new", "ok", None, 0, <<>>, 0, 0)

\* BinaryReader::new on a buffer, under either build profile; the other
\* components idle.
InitReader ==
    /\ overflow_checks \in BOOLEAN
    /\ buffer \in Buffers
    /\ offset = 0
    /\ last_read = NoRead
    /\ trade = <<>>
    /\ tx = <<>> /\ adapter = <<>> /\ view = <<>>
    /\ instructions = <<>> /\ parsed = <<>>
    /\ ctx = <<>> /\ runs = <<>> /\ ids = <<>>
    /\ encoded = <<>> /\ decode_result = <<>>

readerFrame ==
    <<buffer, overflow_checks, tradeVars, adapterVars, parserVars, classifierVars, decodeVars>>

ReadU8 ==
    /\ last_read' = read_u8(buffer, offset)
    /\ offset' = last_read'.offset
    /\ UNCHANGED readerFrame

ReadU16 ==
    /\ last_read' = read_u16(buffer, offset)
    /\ offset' = last_read'.offset
    /\ UNCHANGED readerFrame

ReadU64 ==
    /\ last_read' = read_u64(buffer, offset)
    /\ offset' = last_read'.offset
    /\ UNCHANGED readerFrame

ReadI64 ==
    /\ last_read' = read_i64(buffer, offset)
    /\ offset' = last_read'.offset
    /\ UNCHANGED readerFrame

ReadPubkey ==
    /\ last_read' = read_pubkey(buffer, offset)
    /\ offset' = last_read'.offset
    /\ UNCHANGED readerFrame

ReadString ==
    /\ last_read' = read_string(buffer, offset)
    /\ offset' = last_read'.offset
    /\ UNCHANGED readerFrame

ReadFixedArray ==
    \E n \in FixedLens :
        /\ last_read' = read_fixed_array(buffer, offset, n)
        /\ offset' = last_read'.offset
        /\ UNCHANGED readerFrame

\* remaining() reads the cursor and moves nothing; its value is recorded in
\* the outcome's `requested` field.
Remaining ==
    /\ last_read' = Outcome("remaining", "ok", None, offset, <<>>,
                            remaining(buffer, offset), offset)
    /\ UNCHANGED <<offset, readerFrame>>

NextReader ==
    \/ ReadU8
    \/ ReadU16
    \/ ReadU64
    \/ ReadI64
    \/ ReadPubkey
    \/ ReadString
    \/ ReadFixedArray
    \/ Remaining

SpecReader == InitReader /\ [][NextReader]_vars

(***************************************************************************)
(* Pumpswap trade assembly (protocols/pumpfun/util.rs).                    *)
(*                                                                         *)
(* A ui amount (an f64 in the code) is kept as the pair <<raw, decimals>>  *)
(* standing for raw / 10^decimals.                                         *)
(***************************************************************************)
SOL_MINT == "So11111111111111111111111111111111111111112"
PUMP_SWAP_PROGRAM_ID == "pAMMBay6oceH9fJKBRHGP5D4bD4sWpmSwMn52FMfXEA"
PUMP_SWAP_PROGRAM_NAME == "Pumpswap"

convert_to_ui_amount(amount, decimals) == <<amount, decimals>>

get_trade_type(input_mint, output_mint) ==
    IF input_mint = SOL_MINT THEN "Buy"
    ELSE IF output_mint = SOL_MINT THEN "Sell"
    ELSE "Swap"

build_token_info(mint, amount, decimals) ==
    [mint |-> mint, amount |-> convert_to_ui_amount(amount, decimals),
     amount_raw |-> to_string(amount), decimals |-> decimals]

FeeInfo(mint, ui, raw, decimals, dex, fee_type, recipient) ==
    [mint |-> mint, amount |-> ui, amount_raw |-> raw, decimals |-> decimals,
     dex |-> dex, fee_type |-> fee_type, recipient |-> recipient]

get_pumpswap_trade_info(event, dex_info, input, output, fee, fees, user) ==
    [trade_type |-> get_trade_type(input[1], output[1]),
     pool |-> IF event.event_type \in {"Buy", "Sell"} THEN <<event.data.pool>> ELSE <<>>,
     input_token |-> build_token_info(input[1], input[3], input[2]),
     output_token |-> build_token_info(output[1], output[3], output[2]),
     fee |-> fee,
     fees |-> fees,
     user |-> <<user>>,
     program_id |-> IF dex_info.program_id = None THEN PUMP_SWAP_PROGRAM_ID
                    ELSE dex_info.program_id,
     amm |-> IF dex_info.amm = None THEN PUMP_SWAP_PROGRAM_NAME ELSE dex_info.amm,
     slot |-> event.slot,
     timestamp |-> event.timestamp,
     signature |-> event.signature,
     idx |-> event.idx,
     signer |-> event.signer]

\* protocol_fee + coin_creator_fee is a u64 addition, widened to u128 afterwards:
\* <<>> when it panics (overflow checks on), else <<the wrapped sum>>.
total_fee(protocol_fee, coin_creator_fee) ==
    IF protocol_fee + coin_creator_fee >= U64Mod
    THEN IF overflow_checks THEN <<>> ELSE <<(protocol_fee + coin_creator_fee) % U64Mod>>
    ELSE <<protocol_fee + coin_creator_fee>>

\* The mutant of fee_entries: the coinCreator entry is pushed whatever the fee.
fee_entries_with_creator(data, fee) ==
    <<FeeInfo(fee[1], convert_to_ui_amount(data.protocol_fee, fee[2]),
              to_string(data.protocol_fee), fee[2], PUMP_SWAP_PROGRAM_NAME,
              "protocol", data.protocol_fee_recipient),
      FeeInfo(fee[1], convert_to_ui_amount(data.coin_creator_fee, fee[2]),
              to_string(data.coin_creator_fee), fee[2], PUMP_SWAP_PROGRAM_NAME,
              "coinCreator", data.coin_creator)>>

\* The fees[] of both builders: the protocol entry, then the coinCreator entry
\* when coin_creator_fee > 0.
fee_entries(data, fee) ==
    <<FeeInfo(fee[1], convert_to_ui_amount(data.protocol_fee, fee[2]),
              to_string(data.protocol_fee), fee[2], PUMP_SWAP_PROGRAM_NAME,
              "protocol", data.protocol_fee_recipient)>>
    \o (IF data.coin_creator_fee > 0
        THEN <<FeeInfo(fee[1], convert_to_ui_amount(data.coin_creator_fee, fee[2]),
                       to_string(data.coin_creator_fee), fee[2], PUMP_SWAP_PROGRAM_NAME,
                       "coinCreator", data.coin_creator)>>
        ELSE <<>>)

\* The amount_raw of the Sell trade's fee.
sell_fee_amount_raw(sell, total) == to_string(sell.protocol_fee)

\* input, output, fee are (mint, decimals); the result is <<>> on a panic.
build_pumpswap_buy_trade(event, buy, input, output, fee, dex_info) ==
    LET total == total_fee(buy.protocol_fee, buy.coin_creator_fee)
    IN  IF total = <<>> THEN <<>>
        ELSE <<get_pumpswap_trade_info(
                 event, dex_info,
                 <<input[1], input[2], buy.quote_amount_in_with_lp_fee>>,
                 <<output[1], output[2], buy.base_amount_out>>,
                 FeeInfo(fee[1], convert_to_ui_amount(total[1], fee[2]),
                         to_string(total[1]), fee[2], None, None, None),
                 fee_entries(buy, fee),
                 buy.user)>>

build_pumpswap_sell_trade(event, sell, input, output, fee, dex_info) ==
    LET total == total_fee(sell.protocol_fee, sell.coin_creator_fee)
    IN  IF total = <<>> THEN <<>>
        ELSE <<get_pumpswap_trade_info(
                 event, dex_info,
                 <<input[1], input[2], sell.base_amount_in>>,
                 <<output[1], output[2], sell.user_quote_amount_out>>,
                 FeeInfo(fee[1], convert_to_ui_amount(total[1], fee[2]),
                         sell_fee_amount_raw(sell, total[1]), fee[2],
                         PUMP_SWAP_PROGRAM_NAME, None, None),
                 fee_entries(sell, fee),
                 sell.user)>>

(***************************************************************************)
(* The builders applied to decoded Buy / Sell events.                      *)
(***************************************************************************)
AdapterSigners == <<"Payer">>

\* attach_token_transfers: the user of a trade without one is the source of the
\* first transfer of its program with the input mint and raw amount; the
\* signers are the adapter's when the trade has none.
attach_token_transfers(info, transfers) ==
    LET entries == IF Has(transfers, info.program_id) THEN transfers[info.program_id]
                   ELSE <<>>
        hits == {i \in 1..Len(entries) :
                   /\ entries[i].info.mint = info.input_token.mint
                   /\ entries[i].info.token_amount.amount = info.input_token.amount_raw}
        user == IF info.user = <<>> /\ hits # {}
                THEN <<entries[CHOOSE i \in hits : \A j \in hits : i <= j].info.source>>
                ELSE info.user
    IN  [info EXCEPT !.user = user,
                      !.signer = IF @ = <<>> THEN <<AdapterSigners>> ELSE @]

\* The token maps of an adapter: spl_token_map (token account -> mint, decimals)
\* and spl_decimals_map (mint -> decimals).
TokenAdapter(spl_token_map, spl_decimals_map) ==
    [spl_token_map |-> spl_token_map, spl_decimals_map |-> spl_decimals_map]

NoTokenAdapter == TokenAdapter(<<>>, <<>>)

SplToken(mint, decimals) == [mint |-> mint, decimals |-> decimals]

TokenAdapters ==
    {TokenAdapter([UserQuoteAccount |-> SplToken(SOL_MINT, 9),
                   UserBaseAccount |-> SplToken("MintA", 6),
                   FeeAccount |-> SplToken(SOL_MINT, 9)],
                  [MintA |-> 6]),
     TokenAdapter([UserQuoteAccount |-> SplToken("MintB", 5),
                   UserBaseAccount |-> SplToken("MintA", 0),
                   FeeAccount |-> SplToken("MintB", 5)],
                  [MintA |-> 6]),
     TokenAdapter([UserQuoteAccount |-> SplToken(SOL_MINT, 9),
                   FeeAccount |-> SplToken(SOL_MINT, 9)],
                  [MintA |-> 6]),
     TokenAdapter([UserQuoteAccount |-> SplToken(SOL_MINT, 9),
                   UserBaseAccount |-> SplToken("MintA", 6)],
                  [MintA |-> 6])}

\* TransactionAdapter::token_account_info: the entry of spl_token_map.
token_account_info(token_adapter, account) ==
    IF account \in DOMAIN token_adapter.spl_token_map
    THEN <<token_adapter.spl_token_map[account]>>
    ELSE <<>>

\* TransactionAdapter::token_decimals: the entry of spl_decimals_map.
token_decimals(token_adapter, mint) ==
    IF mint \in DOMAIN token_adapter.spl_decimals_map
    THEN <<token_adapter.spl_decimals_map[mint]>>
    ELSE <<>>

\* (mint, decimals) of a token account: the decimals of the mint, else those of
\* the account's entry.
mint_and_decimals(token_adapter, info) ==
    <<info.mint, UnwrapOr(token_decimals(token_adapter, info.mint), info.decimals)>>

\* Some(attach_token_transfers(&self.adapter, trade, &self.transfer_actions))
attached(built, transfers) ==
    IF built = <<>> THEN <<>> ELSE <<attach_token_transfers(built[1], transfers)>>

\* The mutant of create_sell_trade: the accounts are taken as for a Buy.
create_sell_trade_as_buy(token_adapter, event, sell, dex_info, transfers) ==
    IF \/ token_account_info(token_adapter, sell.user_quote_token_account) = <<>>
       \/ token_account_info(token_adapter, sell.user_base_token_account) = <<>>
       \/ token_account_info(token_adapter, sell.protocol_fee_recipient_token_account) = <<>>
    THEN <<>>
    ELSE attached(
             build_pumpswap_sell_trade(
                 event, sell,
                 mint_and_decimals(token_adapter,
                     token_account_info(token_adapter, sell.user_quote_token_account)[1]),
                 mint_and_decimals(token_adapter,
                     token_account_info(token_adapter, sell.user_base_token_account)[1]),
                 mint_and_decimals(token_adapter,
                     token_account_info(token_adapter,
                                        sell.protocol_fee_recipient_token_account)[1]),
                 dex_info),
             transfers)

\* PumpswapParser::create_buy_trade: <<>> is None (an account without token info)
\* and also the panic of the builder.
create_buy_trade(token_adapter, event, buy, dex_info, transfers) ==
    IF \/ token_account_info(token_adapter, buy.user_quote_token_account) = <<>>
       \/ token_account_info(token_adapter, buy.user_base_token_account) = <<>>
       \/ token_account_info(token_adapter, buy.protocol_fee_recipient_token_account) = <<>>
    THEN <<>>
    ELSE attached(
             build_pumpswap_buy_trade(
                 event, buy,
                 mint_and_decimals(token_adapter,
                     token_account_info(token_adapter, buy.user_quote_token_account)[1]),
                 mint_and_decimals(token_adapter,
                     token_account_info(token_adapter, buy.user_base_token_account)[1]),
                 mint_and_decimals(token_adapter,
                     token_account_info(token_adapter,
                                        buy.protocol_fee_recipient_token_account)[1]),
                 dex_info),
             transfers)

\* PumpswapParser::create_sell_trade
create_sell_trade(token_adapter, event, sell, dex_info, transfers) ==
    IF \/ token_account_info(token_adapter, sell.user_base_token_account) = <<>>
       \/ token_account_info(token_adapter, sell.user_quote_token_account) = <<>>
       \/ token_account_info(token_adapter, sell.protocol_fee_recipient_token_account) = <<>>
    THEN <<>>
    ELSE attached(
             build_pumpswap_sell_trade(
                 event, sell,
                 mint_and_decimals(token_adapter,
                     token_account_info(token_adapter, sell.user_base_token_account)[1]),
                 mint_and_decimals(token_adapter,
                     token_account_info(token_adapter, sell.user_quote_token_account)[1]),
                 mint_and_decimals(token_adapter,
                     token_account_info(token_adapter,
                                        sell.protocol_fee_recipient_token_account)[1]),
                 dex_info),
             transfers)

FeeVals == {0, 50, 100, U64Max}
AmountVals == {1, 7}
MintPairs == {<<SOL_MINT, "MintA">>, <<"MintA", SOL_MINT>>, <<"MintA", "MintB">>}
DexInfos == {[program_id |-> None, amm |-> None],
             [program_id |-> PUMP_SWAP_PROGRAM_ID, amm |-> PUMP_SWAP_PROGRAM_NAME]}

BuyData(pf, cf, a, b) ==
    [pool |-> "Pool", user |-> "User",
     base_amount_out |-> b, quote_amount_in_with_lp_fee |-> a,
     protocol_fee |-> pf, coin_creator_fee |-> cf,
     protocol_fee_recipient |-> "FeeRecipient", coin_creator |-> "Creator",
     user_base_token_account |-> "UserBaseAccount",
     user_quote_token_account |-> "UserQuoteAccount",
     protocol_fee_recipient_token_account |-> "FeeAccount"]

SellData(pf, cf, a, b) ==
    [pool |-> "Pool", user |-> "User",
     base_amount_in |-> a, user_quote_amount_out |-> b,
     protocol_fee |-> pf, coin_creator_fee |-> cf,
     protocol_fee_recipient |-> "FeeRecipient", coin_creator |-> "Creator",
     user_base_token_account |-> "UserBaseAccount",
     user_quote_token_account |-> "UserQuoteAccount",
     protocol_fee_recipient_token_account |-> "FeeAccount"]

SwapEvent(type, data) ==
    [event_type |-> type, data |-> data, slot |-> 7, timestamp |-> 1700,
     signature |-> "Sig", idx |-> <<"2", "-", "1">>, signer |-> <<"Payer">>]

InitTrade ==
    /\ overflow_checks \in BOOLEAN
    /\ trade = <<>>
    /\ buffer = <<>> /\ offset = 0 /\ last_read = NoRead
    /\ tx = <<>> /\ adapter = <<>> /\ view = <<>>
    /\ instructions = <<>> /\ parsed = <<>>
    /\ ctx = <<>> /\ runs = <<>> /\ ids = <<>>
    /\ encoded = <<>> /\ decode_result = <<>>

tradeFrame ==
    <<overflow_checks, readerVars, adapterVars, parserVars, classifierVars, decodeVars>>

BuildSell ==
    \E pf \in FeeVals, cf \in FeeVals, a \in AmountVals, b \in AmountVals,
       m \in MintPairs, dex \in DexInfos :
        LET event == SwapEvent("Sell", SellData(pf, cf, a, b))
        IN  /\ trade = <<>>
            /\ trade' = <<[op |-> "build_pumpswap_sell_trade", event |-> event,
                         token_adapter |-> NoTokenAdapter,
                         built |-> build_pumpswap_sell_trade(
                                       event, event.data, <<m[1], 6>>, <<m[2], 9>>,
                                       <<m[2], 9>>, dex)]>>
            /\ UNCHANGED tradeFrame

BuildBuy ==
    \E pf \in FeeVals, cf \in FeeVals, a \in AmountVals, b \in AmountVals,
       m \in MintPairs, dex \in DexInfos :
        LET event == SwapEvent("Buy", BuyData(pf, cf, a, b))
        IN  /\ trade = <<>>
            /\ trade' = <<[op |-> "build_pumpswap_buy_trade", event |-> event,
                         token_adapter |-> NoTokenAdapter,
                         built |-> build_pumpswap_buy_trade(
                                       event, event.data, <<m[1], 9>>, <<m[2], 6>>,
                                       <<m[1], 9>>, dex)]>>
            /\ UNCHANGED tradeFrame

\* PumpswapParser::create_sell_trade
CreateSellTrade ==
    \E pf \in FeeVals, cf \in FeeVals, a \in AmountVals, b \in AmountVals,
       token_adapter \in TokenAdapters :
        /\ trade = <<>>
        /\ trade' = <<[op |-> "create_sell_trade",
                       event |-> SwapEvent("Sell", SellData(pf, cf, a, b)),
                       token_adapter |-> token_adapter,
                       built |-> create_sell_trade(
                                     token_adapter, SwapEvent("Sell", SellData(pf, cf, a, b)),
                                     SellData(pf, cf, a, b),
                                     [program_id |-> None, amm |-> None], EmptyMap)]>>
        /\ UNCHANGED tradeFrame

\* PumpswapParser::create_buy_trade
CreateBuyTrade ==
    \E pf \in FeeVals, cf \in FeeVals, a \in AmountVals, b \in AmountVals,
       token_adapter \in TokenAdapters :
        /\ trade = <<>>
        /\ trade' = <<[op |-> "create_buy_trade",
                       event |-> SwapEvent("Buy", BuyData(pf, cf, a, b)),
                       token_adapter |-> token_adapter,
                       built |-> create_buy_trade(
                                     token_adapter, SwapEvent("Buy", BuyData(pf, cf, a, b)),
                                     BuyData(pf, cf, a, b),
                                     [program_id |-> None, amm |-> None], EmptyMap)]>>
        /\ UNCHANGED tradeFrame

\* TransactionAdapter::fee: meta.fee, 0 when absent, as a TokenAmount of 9
\* decimals.
adapter_fee(meta_fee) ==
    [amount |-> to_string(UnwrapOr(meta_fee, 0)),
     ui_amount |-> <<convert_to_ui_amount(UnwrapOr(meta_fee, 0), 9)>>,
     decimals |-> 9]

\* The mutant of attach_trade_fee: the fee is set whatever its amount.
attach_trade_fee_always(meta_fee, info) ==
    [info EXCEPT !.fee = FeeInfo("SOL", UnwrapOr(adapter_fee(meta_fee).ui_amount, <<0, 0>>),
                                 adapter_fee(meta_fee).amount, adapter_fee(meta_fee).decimals,
                                 None, None, None)]

\* TransactionUtils::attach_trade_fee
attach_trade_fee(meta_fee, info) ==
    IF adapter_fee(meta_fee).amount # <<"0">>
    THEN [info EXCEPT !.fee = FeeInfo("SOL", UnwrapOr(adapter_fee(meta_fee).ui_amount, <<0, 0>>),
                                      adapter_fee(meta_fee).amount, adapter_fee(meta_fee).decimals,
                                      None, None, None)]
    ELSE info

\* meta.fee of the transaction: absent, zero, five lamports, the largest u64.
MetaFees == {<<>>, <<0>>, <<5>>, <<U64Max>>}

\* attach_trade_fee on a trade a builder has returned.
AttachTradeFee ==
    \E meta_fee \in MetaFees :
        /\ trade # <<>>
        /\ trade[1].op # "attach_trade_fee"
        /\ trade[1].built # <<>>
        /\ trade' = <<[op |-> "attach_trade_fee", event |-> trade[1].event,
                       token_adapter |-> trade[1].token_adapter,
                       meta_fee |-> meta_fee, given |-> trade[1].built[1],
                       built |-> <<attach_trade_fee(meta_fee, trade[1].built[1])>>]>>
        /\ UNCHANGED tradeFrame

NextTrade == BuildSell \/ BuildBuy \/ CreateSellTrade \/ CreateBuyTrade \/ AttachTradeFee

SpecTrade == InitTrade /\ [][NextTrade]_vars

(***************************************************************************)
(* TransactionAdapter (core/transaction_adapter.rs).                       *)
(*                                                                         *)
(* An account key (a base58 string in the code) is a natural number; the   *)
(* order of the numbers is the order of the strings, and 0 is the empty    *)
(* string.  A HashMap is a function on its set of keys.                    *)
(***************************************************************************)
\* Vec::sort of the elements of a set (all distinct).
RECURSIVE Sorted(_)
Sorted(S) ==
    IF S = {} THEN <<>>
    ELSE LET m == CHOOSE x \in S : \A y \in S : x <= y
         IN  <<m>> \o Sorted(S \ {m})

\* The keys an instruction names: its accounts, then its program id.
InstructionKeys(ix) == Append(ix.accounts, ix.program_id)

RECURSIVE Flatten(_)
Flatten(ss) == IF ss = <<>> THEN <<>> ELSE ss[1] \o Flatten(Tail(ss))

\* Every key the transaction names, in the order extract_account_keys visits them.
VisitedKeys(t) ==
    t.static_account_keys \o t.loaded_writable \o t.loaded_readonly
    \o Flatten([i \in 1..Len(t.instructions) |-> InstructionKeys(t.instructions[i])])
    \o Flatten([i \in 1..Len(t.inner_instructions) |->
                  Flatten([j \in 1..Len(t.inner_instructions[i].instructions) |->
                             InstructionKeys(t.inner_instructions[i].instructions[j])])])

\* extract_account_keys: the visited keys collected in a HashSet, then sorted.
extract_account_keys(t) == Sorted(Range(VisitedKeys(t)))

get_account_key(a, index) ==
    IF index + 1 <= Len(a.account_keys) THEN a.account_keys[index + 1] ELSE 0

\* signers(): the first num_required_signatures account keys when the message
\* states that number, else tx.signers, else the first account key.
signers(t, a) ==
    IF t.num_required_signatures # <<>>
    THEN SubSeq(a.account_keys, 1, Min(t.num_required_signatures[1], Len(a.account_keys)))
    ELSE IF t.signers # <<>> THEN t.signers[1]
    ELSE IF a.account_keys # <<>> THEN <<a.account_keys[1]>>
    ELSE <<>>

signer(t, a) == IF signers(t, a) # <<>> THEN signers(t, a)[1] ELSE 0

\* The first element of a list of token balances whose account is `key`.
FindBalance(list, key) ==
    IF \E i \in 1..Len(list) : list[i].account = key
    THEN <<list[CHOOSE i \in 1..Len(list) :
                  /\ list[i].account = key
                  /\ \A j \in 1..(i - 1) : list[j].account # key]>>
    ELSE <<>>

\* get_token_account_owner: the owner field of the post entry of the account,
\* else that of its pre entry.
get_token_account_owner(t, key) ==
    LET post == IF t.post_token_balances = <<>> THEN <<>>
                ELSE FindBalance(t.post_token_balances[1], key)
        pre == IF t.pre_token_balances = <<>> THEN <<>>
               ELSE FindBalance(t.pre_token_balances[1], key)
    IN  IF post # <<>> THEN post[1].owner
        ELSE IF pre # <<>> THEN pre[1].owner
        ELSE <<>>

\* The map key of an account: its token-account owner when is_owner, else itself.
ChangeKey(t, key, is_owner) ==
    IF is_owner /\ get_token_account_owner(t, key) # <<>>
    THEN get_token_account_owner(t, key)[1]
    ELSE key

TokenAmount(amount, ui, decimals) ==
    [amount |-> amount, ui_amount |-> ui, decimals |-> decimals]

LamportAmount(lamports) == TokenAmount(to_string(lamports), <<lamports, 9>>, 9)

AtOr(list, index, d) == IF index <= Len(list) THEN list[index] ELSE d

\* The loop of get_account_sol_balance_changes from account index i (1-based) on.
RECURSIVE SolLoop(_, _, _, _, _)
SolLoop(t, a, is_owner, changes, i) ==
    IF i > Len(a.account_keys) THEN changes
    ELSE LET pre_balance == AtOr(t.pre_balances[1], i, 0)
             post_balance == AtOr(t.post_balances[1], i, 0)
             change == post_balance - pre_balance
         IN  IF change = 0
             THEN SolLoop(t, a, is_owner, changes, i + 1)
             ELSE SolLoop(t, a, is_owner,
                          Put(changes, ChangeKey(t, a.account_keys[i], is_owner),
                              [pre |-> LamportAmount(pre_balance),
                               post |-> LamportAmount(post_balance),
                               change |-> TokenAmount(to_string(change), <<change, 9>>, 9)]),
                          i + 1)

get_account_sol_balance_changes(t, a, is_owner) ==
    IF t.pre_balances = <<>> \/ t.post_balances = <<>> THEN EmptyMap
    ELSE SolLoop(t, a, is_owner, EmptyMap, 1)

ZeroAmount(decimals) == TokenAmount(<<"0">>, <<0, decimals>>, decimals)

\* The difference of two ui amounts <<raw, decimals>>, on the finer scale.
UiSub(p, q) ==
    LET d == IF p[2] > q[2] THEN p[2] ELSE q[2]
    IN  <<p[1] * Pow(10, d - p[2]) - q[1] * Pow(10, d - q[2]), d>>

\* The change recorded for a pre-only token balance.
pre_only_change(b) == ZeroAmount(b.ui_token_amount.decimals)

\* The first loop of get_account_token_balance_changes: entry(..).or_insert(..)
\* for every pre balance with a mint.
RECURSIVE PreLoop(_, _, _, _, _)
PreLoop(t, is_owner, list, changes, i) ==
    IF i > Len(list) THEN changes
    ELSE LET b == list[i]
             key == ChangeKey(t, b.account, is_owner)
             entry == IF Has(changes, key) THEN changes[key] ELSE EmptyMap
         IN  IF b.mint = ""
             THEN PreLoop(t, is_owner, list, changes, i + 1)
             ELSE PreLoop(t, is_owner, list,
                          Put(changes, key,
                              IF Has(entry, b.mint) THEN entry
                              ELSE Put(entry, b.mint,
                                       [pre |-> b.ui_token_amount,
                                        post |-> ZeroAmount(b.ui_token_amount.decimals),
                                        change |-> pre_only_change(b)])),
                          i + 1)

\* Whether the post loop drops the entry it has just updated.
prune(diff) == diff = 0

\* The second loop: the difference against the recorded pre amount, the entry
\* removed when the difference is zero; an entry of its own when there is no pre.
RECURSIVE PostLoop(_, _, _, _, _)
PostLoop(t, is_owner, list, changes, i) ==
    IF i > Len(list) THEN changes
    ELSE LET b == list[i]
             key == ChangeKey(t, b.account, is_owner)
             entry == IF Has(changes, key) THEN changes[key] ELSE EmptyMap
         IN  IF b.mint = ""
             THEN PostLoop(t, is_owner, list, changes, i + 1)
             ELSE IF Has(entry, b.mint)
             THEN LET ch == entry[b.mint]
                      pre_raw == UnwrapOr(ParseI128(ch.pre.amount), 0)
                      post_raw == UnwrapOr(ParseI128(b.ui_token_amount.amount), 0)
                      diff == post_raw - pre_raw
                      updated == [pre |-> ch.pre,
                                  post |-> b.ui_token_amount,
                                  change |-> TokenAmount(
                                      to_string(diff),
                                      UiSub(b.ui_token_amount.ui_amount, ch.pre.ui_amount),
                                      b.ui_token_amount.decimals)]
                  IN  PostLoop(t, is_owner, list,
                               Put(changes, key,
                                   IF prune(diff) THEN Remove(entry, b.mint)
                                   ELSE Put(entry, b.mint, updated)),
                               i + 1)
             ELSE PostLoop(t, is_owner, list,
                           Put(changes, key,
                               Put(entry, b.mint,
                                   [pre |-> ZeroAmount(b.ui_token_amount.decimals),
                                    post |-> b.ui_token_amount,
                                    change |-> b.ui_token_amount])),
                           i + 1)

\* changes.retain(|_, m| !m.is_empty())
RetainNonEmpty(changes) ==
    [k \in {x \in DOMAIN changes : DOMAIN changes[x] # {}} |-> changes[k]]

get_account_token_balance_changes(t, is_owner) ==
    LET after_pre == IF t.pre_token_balances = <<>> THEN EmptyMap
                     ELSE PreLoop(t, is_owner, t.pre_token_balances[1], EmptyMap, 1)
        after_post == IF t.post_token_balances = <<>> THEN after_pre
                      ELSE PostLoop(t, is_owner, t.post_token_balances[1], after_pre, 1)
    IN  RetainNonEmpty(after_post)

\* TransactionAdapter::tx_status
tx_status(t) ==
    IF t.err = <<>>
    THEN IF t.pre_balances # <<>> \/ t.post_balances # <<>> THEN "Success" ELSE "Unknown"
    ELSE "Failed"

\* The transactions the adapter is built from.
MaxKey == 3

StaticKeys == 1..MaxKey

IsDistinct(s) == \A i, j \in 1..Len(s) : i # j => s[i] # s[j]

StaticKeyLists == {s \in SeqsUpTo(StaticKeys, MaxKey) : s # <<>> /\ IsDistinct(s)}

LoadedReadonlyKey == MaxKey + 1

LoadedWritableKey == MaxKey + 2

InnerProgramKey == MaxKey + 3

OuterInstructions ==
    {<<>>, <<[program_id |-> 2, accounts |-> <<1, LoadedWritableKey>>]>>}

InnerInstructions ==
    {<<>>, <<[index |-> 0,
              instructions |-> <<[program_id |-> InnerProgramKey, accounts |-> <<3>>]>>]>>}

TokenDecimals == 6

TokenAccounts == {1, 2}

TokenOwner == 3

TokenBalance(account, mint, owner, raw) ==
    [account |-> account, mint |-> mint, owner |-> owner,
     ui_token_amount |-> TokenAmount(to_string(raw), <<raw, TokenDecimals>>, TokenDecimals)]

TokenBalances ==
    {TokenBalance(a, "MintA", o, x) :
        a \in TokenAccounts, o \in {<<>>, <<TokenOwner>>}, x \in {0, 5, 7}}
    \cup {TokenBalance(1, "", <<TokenOwner>>, 5)}

\* Option<Vec<TokenBalance>>: None, or a list with one entry per token account.
TokenBalanceLists ==
    {<<>>} \cup
    {<<l>> : l \in {s \in SeqsUpTo(TokenBalances, Cardinality(TokenAccounts)) :
                      \A i, j \in 1..Len(s) : i # j => s[i].account # s[j].account}}

SolBalanceLists == {<<>>, <<<<5>>>>, <<<<5, 5, 0>>>>, <<<<5, 7, 9>>>>}

Tx(keys, lw, lr, ixs, inner, nrs, sg, pre, post, pre_tb, post_tb) ==
    [static_account_keys |-> keys, loaded_writable |-> lw, loaded_readonly |-> lr,
     instructions |-> ixs, inner_instructions |-> inner,
     num_required_signatures |-> nrs, signers |-> sg,
     pre_balances |-> pre, post_balances |-> post,
     pre_token_balances |-> pre_tb, post_token_balances |-> post_tb,
     err |-> <<>>]

\* Transactions that differ in their keys, and transactions that differ in
\* their SOL balances or in their token balances.
KeyTxs ==
    UNION {{Tx(keys, lw, lr, ixs, inner, nrs, sg, <<<<5, 5, 5>>>>, <<<<5, 7, 5>>>>, <<>>, <<>>) :
              lw \in {<<>>, <<LoadedWritableKey>>}, lr \in {<<>>, <<LoadedReadonlyKey>>},
              ixs \in OuterInstructions, inner \in InnerInstructions,
              nrs \in {<<>>} \cup {<<n>> : n \in 1..Len(keys)},
              sg \in {<<>>, <<<<keys[1]>>>>}} :
           keys \in StaticKeyLists}

SolTxs ==
    {Tx(<<2, 1, 3>>, <<>>, <<>>, <<>>, <<>>, <<1>>, <<>>, pre, post,
        <<<<TokenBalance(1, "MintA", <<TokenOwner>>, 5)>>>>,
        <<<<TokenBalance(2, "MintA", <<TokenOwner>>, 7)>>>>) :
        pre \in SolBalanceLists, post \in SolBalanceLists}

TokenTxs ==
    {Tx(<<2, 1, 3>>, <<>>, <<>>, <<>>, <<>>, <<1>>, <<>>, <<<<5, 5, 5>>>>, <<<<5, 7, 5>>>>,
        pre_tb, post_tb) :
        pre_tb \in TokenBalanceLists, post_tb \in TokenBalanceLists}

\* Transactions that failed: meta.err is set.
FailedTxs == {[t EXCEPT !.err = <<"InstructionError">>] : t \in SolTxs}

TxSet == KeyTxs \cup SolTxs \cup TokenTxs \cup FailedTxs

InitAdapter ==
    /\ tx \in {<<t>> : t \in TxSet}
    /\ adapter = <<>>
    /\ view = <<>>
    /\ overflow_checks = FALSE
    /\ buffer = <<>>
    /\ offset = 0
    /\ last_read = NoRead
    /\ trade = <<>>
    /\ instructions = <<>>
    /\ parsed = <<>>
    /\ ctx = <<>>
    /\ runs = <<>>
    /\ ids = <<>>
    /\ encoded = <<>>
    /\ decode_result = <<>>

adapterFrame ==
    UNCHANGED <<overflow_checks, readerVars, tradeVars, parserVars, classifierVars,
                decodeVars>>

\* TransactionAdapter::new.  The adapter record holds account_keys; the token maps
\* that extract_token_info fills (spl_token_map, spl_decimals_map) are read by none
\* of the getters below and are not part of the record.
New ==
    /\ adapter = <<>>
    /\ adapter' = <<[account_keys |-> extract_account_keys(tx[1])]>>
    /\ UNCHANGED <<tx, view>>
    /\ adapterFrame

View(op, arg, value) == [op |-> op, arg |-> arg, value |-> value]

GetAccountKey ==
    /\ adapter # <<>>
    /\ view = <<>>
    /\ \E index \in 0..(MaxKey + 1) :
          view' = <<View("get_account_key", index, get_account_key(adapter[1], index))>>
    /\ UNCHANGED <<tx, adapter>>
    /\ adapterFrame

Signers ==
    /\ adapter # <<>>
    /\ view = <<>>
    /\ view' = <<View("signers", 0, signers(tx[1], adapter[1]))>>
    /\ UNCHANGED <<tx, adapter>>
    /\ adapterFrame

Signer ==
    /\ adapter # <<>>
    /\ view = <<>>
    /\ view' = <<View("signer", 0, signer(tx[1], adapter[1]))>>
    /\ UNCHANGED <<tx, adapter>>
    /\ adapterFrame

GetAccountSolBalanceChanges ==
    /\ adapter # <<>>
    /\ view = <<>>
    /\ \E is_owner \in BOOLEAN :
          view' = <<View("get_account_sol_balance_changes", is_owner,
                         get_account_sol_balance_changes(tx[1], adapter[1], is_owner))>>
    /\ UNCHANGED <<tx, adapter>>
    /\ adapterFrame

GetAccountTokenBalanceChanges ==
    /\ adapter # <<>>
    /\ view = <<>>
    /\ \E is_owner \in BOOLEAN :
          view' = <<View("get_account_token_balance_changes", is_owner,
                         get_account_token_balance_changes(tx[1], is_owner))>>
    /\ UNCHANGED <<tx, adapter>>
    /\ adapterFrame

\* TransactionAdapter::tx_status
TxStatus ==
    /\ adapter # <<>>
    /\ view = <<>>
    /\ view' = <<View("tx_status", <<>>, tx_status(tx[1]))>>
    /\ UNCHANGED <<tx, adapter>>
    /\ adapterFrame

NextAdapter ==
    \/ New
    \/ TxStatus
    \/ GetAccountKey
    \/ Signers
    \/ Signer
    \/ GetAccountSolBalanceChanges
    \/ GetAccountTokenBalanceChanges

SpecAdapter == InitAdapter /\ [][NextAdapter]_vars

(***************************************************************************)
(* Event decoding (pumpfun_event_parser.rs, pumpswap_event_parser.rs).     *)
(*                                                                         *)
(* An event layout is a sequence of <<field, kind>>; the reads are those    *)
(* of the BinaryReader above.                                              *)
(***************************************************************************)
Zeros(n) == [i \in 1..n |-> 0]

\* u64::from_le_bytes and its narrower forms.
RECURSIVE Le(_)
Le(b) == IF b = <<>> THEN 0 ELSE b[1] + 256 * Le(Tail(b))

\* i64::from_le_bytes: two's complement.
I64Le(b) ==
    IF b[Len(b)] >= 128 THEN -(1 + Le([i \in 1..Len(b) |-> 255 - b[i]])) ELSE Le(b)

\* `value as u64` of an i64.
AsU64(value) == value % U64Mod

SYSTEM_PROGRAM_ID == "11111111111111111111111111111111"

\* Base58 of the 32-byte keys the payloads hold.
bs58_encode(bytes) ==
    CASE bytes = Zeros(32) -> SYSTEM_PROGRAM_ID
      [] bytes = Zeros(31) \o <<1>> -> "11111111111111111111111111111112"

ReadField(buf, off, kind) ==
    CASE kind = "u8" -> read_u8(buf, off)
      [] kind = "u16" -> read_u16(buf, off)
      [] kind = "u64" -> read_u64(buf, off)
      [] kind \in {"i64", "timestamp", "i64 as u64"} -> read_i64(buf, off)
      [] kind = "pubkey" -> read_pubkey(buf, off)
      [] kind = "fixed32" -> read_fixed_array(buf, off, 32)
      [] kind = "string" -> read_string(buf, off)

\* read_timestamp of the Pumpswap decoder: a negative value reads as 0.
read_timestamp(value) == IF value >= 0 THEN value ELSE 0

\* The value a decoder takes from the bytes of a read.
Convert(kind, bytes) ==
    CASE kind \in {"u8", "u16", "u64"} -> Le(bytes)
      [] kind = "i64" -> I64Le(bytes)
      [] kind = "i64 as u64" -> AsU64(I64Le(bytes))
      [] kind = "timestamp" -> read_timestamp(I64Le(bytes))
      [] kind \in {"pubkey", "fixed32"} -> bs58_encode(bytes)
      [] kind = "string" -> bytes

\* The reads of a layout in turn from offset `off`, each `?`-propagated: the
\* first read that fails ends the decoding with its error.
RECURSIVE read_fields(_, _, _, _)
after_read(buf, layout, fields, r) ==
    IF r.kind # "ok"
    THEN [kind |-> r.kind, error |-> r.error, offset |-> r.offset, fields |-> fields]
    ELSE read_fields(buf, r.offset, Tail(layout),
                     Put(fields, layout[1][1], Convert(layout[1][2], r.bytes)))

read_fields(buf, off, layout, fields) ==
    IF layout = <<>>
    THEN [kind |-> "ok", error |-> None, offset |-> off, fields |-> fields]
    ELSE after_read(buf, layout, fields, ReadField(buf, off, layout[1][2]))

\* if reader.remaining() >= least { the reads of the layout }
Group(prev, buf, least, layout) ==
    IF prev.kind = "ok" /\ remaining(buf, prev.offset) >= least
    THEN read_fields(buf, prev.offset, layout, prev.fields)
    ELSE prev

\* if reader.remaining() > 0 { read } else { default }
Trailing(prev, buf, field, default) ==
    IF prev.kind # "ok" THEN prev
    ELSE IF remaining(buf, prev.offset) > 0
    THEN read_fields(buf, prev.offset, <<field>>, prev.fields)
    ELSE [prev EXCEPT !.fields = Put(@, field[1], default)]

Opt(fields, name) == IF Has(fields, name) THEN <<fields[name]>> ELSE <<>>

\* What the adapter of the parsers returns for its transaction.
AdapterSignature == "Sig"

AdapterSlot == 7

AdapterBlockTime == 1700

PUMP_FUN_PROGRAM_ID == "6EF8rrecthR5Dkzon8Nwu78hRvfCKubJ14M5uBEwF6P"

PUMP_FUN_PROGRAM_NAME == "Pumpfun"

MemeEvent(event_type, timestamp, user, base_mint, input_token, output_token,
          fee, creator, bonding_curve, pool) ==
    [event_type |-> event_type, timestamp |-> timestamp, idx |-> <<>>, slot |-> 0,
     signature |-> "", user |-> user, base_mint |-> base_mint, quote_mint |-> SOL_MINT,
     input_token |-> input_token, output_token |-> output_token, fee |-> fee,
     protocol |-> PUMP_FUN_PROGRAM_NAME, creator |-> creator,
     bonding_curve |-> bonding_curve, pool |-> pool]

\* Ok(event built from the fields read), or the error of the failed read.
Decoded(r, Event(_)) ==
    IF r.kind = "ok" THEN [kind |-> "ok", error |-> None, event |-> <<Event(r.fields)>>]
    ELSE [kind |-> r.kind, error |-> r.error, event |-> <<>>]

TradeLayout ==
    <<(<<"mint", "pubkey">>), (<<"sol_amount", "u64">>), (<<"token_amount", "u64">>),
      (<<"is_buy", "u8">>), (<<"user", "fixed32">>), (<<"timestamp", "i64 as u64">>),
      (<<"virtual_sol", "u64">>), (<<"virtual_token", "u64">>)>>

TradeTailLayout ==
    <<(<<"real_sol_reserves", "u64">>), (<<"real_token_reserves", "u64">>),
      (<<"fee_recipient", "pubkey">>), (<<"fee_basis_points", "u16">>), (<<"fee", "u64">>),
      (<<"creator", "pubkey">>), (<<"creator_fee_basis_points", "u16">>),
      (<<"creator_fee", "u64">>)>>

\* The mutant of TradeEvent: is_buy is not looked at, the quote is always the input.
TradeEventQuoteIn(f) ==
    MemeEvent(get_trade_type(SOL_MINT, f.mint),
              f.timestamp, f.user, f.mint,
              <<build_token_info(SOL_MINT, f.sol_amount, 9)>>,
              <<build_token_info(f.mint, f.token_amount, 6)>>,
              Opt(f, "fee"), Opt(f, "creator"), <<>>, <<>>)

TradeEvent(f) ==
    LET input_token == IF f.is_buy = 1 THEN build_token_info(SOL_MINT, f.sol_amount, 9)
                       ELSE build_token_info(f.mint, f.token_amount, 6)
        output_token == IF f.is_buy = 1 THEN build_token_info(f.mint, f.token_amount, 6)
                        ELSE build_token_info(SOL_MINT, f.sol_amount, 9)
    IN  MemeEvent(get_trade_type(input_token.mint, output_token.mint),
                  f.timestamp, f.user, f.mint, <<input_token>>, <<output_token>>,
                  Opt(f, "fee"), Opt(f, "creator"), <<>>, <<>>)

decode_trade_event(data) ==
    Decoded(Group(read_fields(data, 0, TradeLayout, EmptyMap), data, 52, TradeTailLayout),
            TradeEvent)

CreateLayout ==
    <<(<<"name", "string">>), (<<"symbol", "string">>), (<<"uri", "string">>),
      (<<"mint", "fixed32">>), (<<"bonding_curve", "fixed32">>), (<<"user", "fixed32">>)>>

CreateEvent(f) ==
    MemeEvent("Create", IF Has(f, "ts") /\ f.ts >= 0 THEN f.ts ELSE AdapterBlockTime,
              f.user, f.mint, <<>>, <<>>, <<>>, Opt(f, "creator"), <<f.bonding_curve>>, <<>>)

decode_create_event(data) ==
    Decoded(Group(Group(read_fields(data, 0, CreateLayout, EmptyMap), data, 16,
                        <<(<<"creator", "pubkey">>), (<<"ts", "i64">>)>>),
                  data, 32,
                  <<(<<"virtual_token_reserves", "u64">>), (<<"virtual_sol_reserves", "u64">>),
                    (<<"real_token_reserves", "u64">>), (<<"token_total_supply", "u64">>)>>),
            CreateEvent)

CompleteEvent(f) ==
    MemeEvent("Complete", f.timestamp, f.user, f.mint, <<>>, <<>>,
              <<>>, <<>>, <<f.bonding_curve>>, <<>>)

decode_complete_event(data) ==
    Decoded(read_fields(data, 0,
                        <<(<<"user", "fixed32">>), (<<"mint", "fixed32">>),
                          (<<"bonding_curve", "fixed32">>), (<<"timestamp", "timestamp">>)>>,
                        EmptyMap),
            CompleteEvent)

MigrateEvent(f) ==
    MemeEvent("Migrate", f.timestamp, f.user, f.mint, <<>>, <<>>,
              <<f.pool_migrate_fee>>, <<>>, <<f.bonding_curve>>, <<f.pool>>)

decode_migrate_event(data) ==
    Decoded(read_fields(data, 0,
                        <<(<<"user", "fixed32">>), (<<"mint", "fixed32">>),
                          (<<"mint_amount", "u64">>), (<<"sol_amount", "u64">>),
                          (<<"pool_migrate_fee", "u64">>), (<<"bonding_curve", "fixed32">>),
                          (<<"timestamp", "timestamp">>), (<<"pool", "pubkey">>)>>,
                        EmptyMap),
            MigrateEvent)

BuyLayout ==
    <<(<<"timestamp", "timestamp">>), (<<"base_amount_out", "u64">>),
      (<<"max_quote_amount_in", "u64">>), (<<"user_base_token_reserves", "u64">>),
      (<<"user_quote_token_reserves", "u64">>),
      (<<"pool_base_token_reserves", "u64">>),
      (<<"pool_quote_token_reserves", "u64">>), (<<"quote_amount_in", "u64">>),
      (<<"lp_fee_basis_points", "u64">>), (<<"lp_fee", "u64">>),
      (<<"protocol_fee_basis_points", "u64">>), (<<"protocol_fee", "u64">>),
      (<<"quote_amount_in_with_lp_fee", "u64">>), (<<"user_quote_amount_in", "u64">>),
      (<<"pool", "pubkey">>), (<<"user", "pubkey">>),
      (<<"user_base_token_account", "pubkey">>),
      (<<"user_quote_token_account", "pubkey">>),
      (<<"protocol_fee_recipient", "pubkey">>),
      (<<"protocol_fee_recipient_token_account", "pubkey">>)>>

SellLayout ==
    <<(<<"timestamp", "timestamp">>), (<<"base_amount_in", "u64">>),
      (<<"min_quote_amount_out", "u64">>), (<<"user_base_token_reserves", "u64">>),
      (<<"user_quote_token_reserves", "u64">>),
      (<<"pool_base_token_reserves", "u64">>),
      (<<"pool_quote_token_reserves", "u64">>), (<<"quote_amount_out", "u64">>),
      (<<"lp_fee_basis_points", "u64">>), (<<"lp_fee", "u64">>),
      (<<"protocol_fee_basis_points", "u64">>), (<<"protocol_fee", "u64">>),
      (<<"quote_amount_out_without_lp_fee", "u64">>),
      (<<"user_quote_amount_out", "u64">>), (<<"pool", "pubkey">>),
      (<<"user", "pubkey">>), (<<"user_base_token_account", "pubkey">>),
      (<<"user_quote_token_account", "pubkey">>),
      (<<"protocol_fee_recipient", "pubkey">>),
      (<<"protocol_fee_recipient_token_account", "pubkey">>)>>

AddLiquidityLayout ==
    <<(<<"timestamp", "timestamp">>), (<<"lp_token_amount_out", "u64">>),
      (<<"max_base_amount_in", "u64">>), (<<"max_quote_amount_in", "u64">>),
      (<<"user_base_token_reserves", "u64">>),
      (<<"user_quote_token_reserves", "u64">>),
      (<<"pool_base_token_reserves", "u64">>),
      (<<"pool_quote_token_reserves", "u64">>), (<<"base_amount_in", "u64">>),
      (<<"quote_amount_in", "u64">>), (<<"lp_mint_supply", "u64">>),
      (<<"pool", "pubkey">>), (<<"user", "pubkey">>),
      (<<"user_base_token_account", "pubkey">>),
      (<<"user_quote_token_account", "pubkey">>),
      (<<"user_pool_token_account", "pubkey">>)>>

RemoveLiquidityLayout ==
    <<(<<"timestamp", "timestamp">>), (<<"lp_token_amount_in", "u64">>),
      (<<"min_base_amount_out", "u64">>), (<<"min_quote_amount_out", "u64">>),
      (<<"user_base_token_reserves", "u64">>),
      (<<"user_quote_token_reserves", "u64">>),
      (<<"pool_base_token_reserves", "u64">>),
      (<<"pool_quote_token_reserves", "u64">>), (<<"base_amount_out", "u64">>),
      (<<"quote_amount_out", "u64">>), (<<"lp_mint_supply", "u64">>),
      (<<"pool", "pubkey">>), (<<"user", "pubkey">>),
      (<<"user_base_token_account", "pubkey">>),
      (<<"user_quote_token_account", "pubkey">>),
      (<<"user_pool_token_account", "pubkey">>)>>

CreatePoolLayout ==
    <<(<<"timestamp", "timestamp">>), (<<"index", "u16">>), (<<"creator", "pubkey">>),
      (<<"base_mint", "pubkey">>), (<<"quote_mint", "pubkey">>),
      (<<"base_mint_decimals", "u8">>), (<<"quote_mint_decimals", "u8">>),
      (<<"base_amount_in", "u64">>), (<<"quote_amount_in", "u64">>),
      (<<"pool_base_amount", "u64">>), (<<"pool_quote_amount", "u64">>),
      (<<"minimum_liquidity", "u64">>), (<<"initial_liquidity", "u64">>),
      (<<"lp_token_amount_out", "u64">>), (<<"pool_bump", "u8">>),
      (<<"pool", "pubkey">>), (<<"lp_mint", "pubkey">>),
      (<<"user_base_token_account", "pubkey">>),
      (<<"user_quote_token_account", "pubkey">>)>>

DecodedData(r) ==
    IF r.kind = "ok" THEN [kind |-> "ok", error |-> None, data |-> <<r.fields>>]
    ELSE [kind |-> r.kind, error |-> r.error, data |-> <<>>]

\* decode_buy_event and decode_sell_event: the fixed fields, then three
\* trailing fields, each read when bytes remain and defaulted otherwise.
decode_swap_event(data, layout) ==
    DecodedData(
        Trailing(
            Trailing(
                Trailing(read_fields(data, 0, layout, EmptyMap), data,
                         <<"coin_creator", "pubkey">>, SYSTEM_PROGRAM_ID),
                data, <<"coin_creator_fee_basis_points", "u64">>, 0),
            data, <<"coin_creator_fee", "u64">>, 0))

decode_event(event_type, data) ==
    CASE event_type = "Buy" -> decode_swap_event(data, BuyLayout)
      [] event_type = "Sell" -> decode_swap_event(data, SellLayout)
      [] event_type = "Create" -> DecodedData(read_fields(data, 0, CreatePoolLayout, EmptyMap))
      [] event_type = "Add" -> DecodedData(read_fields(data, 0, AddLiquidityLayout, EmptyMap))
      [] event_type = "Remove" ->
            DecodedData(read_fields(data, 0, RemoveLiquidityLayout, EmptyMap))

\* The 16-byte event discriminators: pairwise distinct byte strings.
Discriminator(tag) == <<tag>> \o Zeros(15)

pumpfun_events ==
    [TRADE |-> Discriminator(1), CREATE |-> Discriminator(2),
     COMPLETE |-> Discriminator(3), MIGRATE |-> Discriminator(4)]

pumpswap_events ==
    [CREATE_POOL |-> Discriminator(5), ADD_LIQUIDITY |-> Discriminator(6),
     REMOVE_LIQUIDITY |-> Discriminator(7), BUY |-> Discriminator(8),
     SELL |-> Discriminator(9)]

\* str::split('-'): the part before the first '-', and what follows it.
RECURSIVE BeforeDash(_)
BeforeDash(s) ==
    IF s = <<>> \/ s[1] = "-" THEN <<>> ELSE <<s[1]>> \o BeforeDash(Tail(s))

AfterDash(s) ==
    IF Len(BeforeDash(s)) = Len(s) THEN <<>>
    ELSE <<SubSeq(s, Len(BeforeDash(s)) + 2, Len(s))>>

parse_idx(value) ==
    LET rest == AfterDash(value)
    IN  <<UnwrapOr(ParseU64(BeforeDash(value)), 0),
          IF rest = <<>> THEN 0 ELSE UnwrapOr(ParseU64(BeforeDash(rest[1])), 0)>>

\* The order of the idx strings themselves, character by character, in which
\* "10-0" comes before "9-0".
RECURSIVE compare_idx_lexicographic(_, _)
compare_idx_lexicographic(a, b) ==
    LET code(c) == IF c = "-" THEN 0 ELSE 1 + DigitVal(c)
    IN  IF a = <<>> THEN (IF b = <<>> THEN "Equal" ELSE "Less")
        ELSE IF b = <<>> THEN "Greater"
        ELSE IF code(a[1]) < code(b[1]) THEN "Less"
        ELSE IF code(a[1]) > code(b[1]) THEN "Greater"
        ELSE compare_idx_lexicographic(Tail(a), Tail(b))

compare_idx(a, b) ==
    LET x == parse_idx(a)
        y == parse_idx(b)
    IN  IF x[1] < y[1] THEN "Less"
        ELSE IF x[1] > y[1] THEN "Greater"
        ELSE IF x[2] < y[2] THEN "Less"
        ELSE IF x[2] > y[2] THEN "Greater"
        ELSE "Equal"

\* The place of an item in a sorted list: after every item that is not greater.
RECURSIVE Insert(_, _)
Insert(sorted, item) ==
    IF sorted = <<>> THEN <<item>>
    ELSE IF compare_idx(item.idx, sorted[Len(sorted)].idx) = "Less"
    THEN Append(Insert(SubSeq(sorted, 1, Len(sorted) - 1), item), sorted[Len(sorted)])
    ELSE Append(sorted, item)

\* The stable sort of Vec::sort_by.
RECURSIVE stable_sort(_)
stable_sort(items) ==
    IF items = <<>> THEN <<>>
    ELSE Insert(stable_sort(SubSeq(items, 1, Len(items) - 1)), items[Len(items)])

sort_by_idx(items) == stable_sort(items)

\* format!("{}-{}", outer_index, inner_index.unwrap_or(0))
format_idx(classified) ==
    to_string(classified.outer_index) \o <<"-">>
    \o to_string(UnwrapOr(classified.inner_index, 0))

TradePayload(is_buy) ==
    Zeros(32) \o <<5>> \o Zeros(7) \o <<9>> \o Zeros(7) \o <<is_buy>>
    \o Zeros(31) \o <<1>> \o Zeros(24)

CreatePayload == <<1, 0, 0, 0, 65>> \o Zeros(8) \o Zeros(96)

\* The eight bytes of the i64 -1.
MinusOne == <<255, 255, 255, 255, 255, 255, 255, 255>>

\* The data strings of the instructions, and the bytes each decodes to: a
\* discriminator and a payload, or fewer than 16 bytes.
EncodedData ==
    [Trade |-> pumpfun_events.TRADE \o TradePayload(1),
     ShortTrade |-> pumpfun_events.TRADE \o Zeros(40),
     BuyEvent |-> pumpswap_events.BUY \o Zeros(304),
     ShortSell |-> pumpswap_events.SELL \o Zeros(100),
     Short |-> Zeros(8),
     TradeSell |-> pumpfun_events.TRADE \o TradePayload(0),
     TradeTail |-> pumpfun_events.TRADE \o TradePayload(1) \o Zeros(100),
     TradeShortTail |-> pumpfun_events.TRADE \o TradePayload(1) \o Zeros(60),
     Create |-> pumpfun_events.CREATE \o CreatePayload,
     CreateCreator |-> pumpfun_events.CREATE \o CreatePayload \o Zeros(40),
     CreateReserves |-> pumpfun_events.CREATE \o CreatePayload \o Zeros(72),
     CreateBadUtf8 |-> pumpfun_events.CREATE \o <<1, 0, 0, 0, 200>> \o Zeros(104),
     TradeNegative |->
         pumpfun_events.TRADE \o Zeros(32) \o <<5>> \o Zeros(7) \o <<9>> \o Zeros(7) \o <<1>>
         \o Zeros(31) \o <<1>> \o MinusOne \o Zeros(16),
     CreateNegative |-> pumpfun_events.CREATE \o CreatePayload \o Zeros(32) \o MinusOne,
     MigrateNegative |-> pumpfun_events.MIGRATE \o Zeros(120) \o MinusOne \o Zeros(32),
     BuyNegative |-> pumpswap_events.BUY \o MinusOne \o Zeros(296),
     CreateShortTail |-> pumpfun_events.CREATE \o CreatePayload \o Zeros(20),
     ShortCreate |-> pumpfun_events.CREATE \o Zeros(30),
     Complete |-> pumpfun_events.COMPLETE \o Zeros(104),
     CompleteNegative |->
         pumpfun_events.COMPLETE \o Zeros(96) \o <<255, 255, 255, 255, 255, 255, 255, 255>>,
     Migrate |-> pumpfun_events.MIGRATE \o Zeros(160),
     ShortMigrate |-> pumpfun_events.MIGRATE \o Zeros(159),
     SellEvent |-> pumpswap_events.SELL \o Zeros(304),
     SellCreatorFee |->
         pumpswap_events.SELL \o Zeros(304) \o Zeros(40) \o <<50>> \o Zeros(7),
     BuyShortTail |-> pumpswap_events.BUY \o Zeros(320),
     CreatePool |-> pumpswap_events.CREATE_POOL \o Zeros(293),
     AddLiquidity |-> pumpswap_events.ADD_LIQUIDITY \o Zeros(248),
     RemoveLiquidity |-> pumpswap_events.REMOVE_LIQUIDITY \o Zeros(248),
     ShortRemove |-> pumpswap_events.REMOVE_LIQUIDITY \o Zeros(247),
     Unknown |-> Discriminator(0) \o Zeros(8),
     Empty |-> <<>>]

(***************************************************************************)
(* Instruction data strings.  decode_instruction_data tries base58, then   *)
(* standard base64, then takes the bytes of the string itself.  A string   *)
(* is a sequence of one-character strings; a decoder returns <<bytes>>, or *)
(* <<>> when it rejects the string.                                        *)
(***************************************************************************)
Base58Alphabet ==
    <<"1", "2", "3", "4", "5", "6", "7", "8", "9",
      "A", "B", "C", "D", "E", "F", "G", "H", "J", "K", "L", "M", "N", "P", "Q",
      "R", "S", "T", "U", "V", "W", "X", "Y", "Z",
      "a", "b", "c", "d", "e", "f", "g", "h", "i", "j", "k", "m", "n", "o", "p",
      "q", "r", "s", "t", "u", "v", "w", "x", "y", "z">>

Base64Alphabet ==
    <<"A", "B", "C", "D", "E", "F", "G", "H", "I", "J", "K", "L", "M", "N", "O", "P",
      "Q", "R", "S", "T", "U", "V", "W", "X", "Y", "Z",
      "a", "b", "c", "d", "e", "f", "g", "h", "i", "j", "k", "l", "m", "n", "o", "p",
      "q", "r", "s", "t", "u", "v", "w", "x", "y", "z",
      "0", "1", "2", "3", "4", "5", "6", "7", "8", "9", "+", "/">>

InAlphabet(alphabet, c) == \E i \in 1..Len(alphabet) : alphabet[i] = c

\* The value of a character in an alphabet: its position, counted from 0.
IndexIn(alphabet, c) == (CHOOSE i \in 1..Len(alphabet) : alphabet[i] = c) - 1

\* The byte of an ASCII character.
AsciiOfBase64(i) ==
    IF i < 26 THEN 65 + i
    ELSE IF i < 52 THEN 97 + (i - 26)
    ELSE IF i < 62 THEN 48 + (i - 52)
    ELSE IF i = 62 THEN 43 ELSE 47

AsciiOf(c) ==
    IF InAlphabet(Base64Alphabet, c) THEN AsciiOfBase64(IndexIn(Base64Alphabet, c))
    ELSE CASE c = "=" -> 61
           [] c = "!" -> 33
           [] c = "-" -> 45
           [] c = " " -> 32

\* str::as_bytes
as_bytes(s) == [i \in 1..Len(s) |-> AsciiOf(s[i])]

\* The bytes of a number, most significant first, without leading zero bytes.
RECURSIVE BigEndian(_)
BigEndian(n) == IF n = 0 THEN <<>> ELSE Append(BigEndian(n \div 256), n % 256)

RECURSIVE Base58Number(_)
Base58Number(s) ==
    IF s = <<>> THEN 0
    ELSE 58 * Base58Number(SubSeq(s, 1, Len(s) - 1)) + IndexIn(Base58Alphabet, s[Len(s)])

RECURSIVE LeadingCount(_, _)
LeadingCount(s, c) ==
    IF s # <<>> /\ s[1] = c THEN 1 + LeadingCount(Tail(s), c) ELSE 0

\* bs58::decode(data).into_vec(): a leading '1' is a zero byte, the rest is a
\* number written in base 58.
bs58_decode(s) ==
    IF \E i \in 1..Len(s) : ~InAlphabet(Base58Alphabet, s[i]) THEN <<>>
    ELSE <<Zeros(LeadingCount(s, "1")) \o BigEndian(Base58Number(s))>>

RECURSIVE TrailingCount(_, _)
TrailingCount(s, c) ==
    IF s # <<>> /\ s[Len(s)] = c
    THEN 1 + TrailingCount(SubSeq(s, 1, Len(s) - 1), c)
    ELSE 0

\* The 24 bits of a group of up to four base64 characters.
RECURSIVE Base64Number(_, _)
Base64Number(group, places) ==
    IF places = 0 THEN 0
    ELSE 64 * Base64Number(SubSeq(group, 1, Min(Len(group), places - 1)), places - 1)
         + (IF Len(group) >= places THEN IndexIn(Base64Alphabet, group[places]) ELSE 0)

ThreeBytes(n) == <<n \div 65536, (n \div 256) % 256, n % 256>>

\* The bytes of the unpadded characters, four characters to three bytes; <<>> when
\* the bits left over in the last group are not zero.
RECURSIVE base64_groups(_)
base64_groups(chars) ==
    IF chars = <<>> THEN <<<<>>>>
    ELSE IF Len(chars) > 4
    THEN IF base64_groups(SubSeq(chars, 5, Len(chars))) = <<>> THEN <<>>
         ELSE <<ThreeBytes(Base64Number(SubSeq(chars, 1, 4), 4))
                \o base64_groups(SubSeq(chars, 5, Len(chars)))[1]>>
    ELSE IF Len(chars) = 1 THEN <<>>
    ELSE IF \E i \in ((Len(chars) * 6) \div 8 + 1)..3 :
                ThreeBytes(Base64Number(chars, 4))[i] # 0
    THEN <<>>
    ELSE <<SubSeq(ThreeBytes(Base64Number(chars, 4)), 1, (Len(chars) * 6) \div 8)>>

\* BASE64_STANDARD.decode(data): the length is a multiple of four, padding is '='
\* at the end only and is required, and the padded bits are zero.
base64_decode(s) ==
    IF Len(s) % 4 # 0 \/ TrailingCount(s, "=") > 2 THEN <<>>
    ELSE IF \E i \in 1..(Len(s) - TrailingCount(s, "=")) :
                ~InAlphabet(Base64Alphabet, s[i])
    THEN <<>>
    ELSE base64_groups(SubSeq(s, 1, Len(s) - TrailingCount(s, "=")))

Decoding(bytes) == [kind |-> "ok", error |-> None, bytes |-> bytes]

\* The mutant of decode_instruction_data: base64 is tried before base58.
decode_instruction_data_base64_first(data) ==
    IF data = <<>> THEN Decoding(<<>>)
    ELSE IF base64_decode(data) # <<>> THEN Decoding(base64_decode(data)[1])
    ELSE IF bs58_decode(data) # <<>> THEN Decoding(bs58_decode(data)[1])
    ELSE Decoding(as_bytes(data))

\* decode_instruction_data
decode_instruction_data(data) ==
    IF data = <<>> THEN Decoding(<<>>)
    ELSE IF bs58_decode(data) # <<>> THEN Decoding(bs58_decode(data)[1])
    ELSE IF base64_decode(data) # <<>> THEN Decoding(base64_decode(data)[1])
    ELSE Decoding(as_bytes(data))

\* The data strings that are spelled out: neither base58 nor base64.
Repeat(c, n) == [i \in 1..n |-> c]

SpelledData ==
    [NotEncoded |-> <<"!", "-">>,
     NotEncodedLong |-> Repeat("!", 16) \o <<"-", " ", "=">>]

\* get_instruction_data.  The data of an instruction is named: a name of
\* EncodedData is a base58 string and the table gives the bytes it decodes to, a
\* name of SpelledData is the string spelled there.
get_instruction_data(instruction) ==
    IF instruction.data \in DOMAIN EncodedData THEN EncodedData[instruction.data]
    ELSE decode_instruction_data(SpelledData[instruction.data]).bytes

\* The data strings decode_instruction_data is given.
MaxString == 4

StringChars == {"1", "A", "Q", "z", "0", "=", "!"}

DataStrings == SeqsUpTo(StringChars, MaxString)

InitDecode ==
    /\ encoded \in DataStrings
    /\ decode_result = <<>>
    /\ overflow_checks = FALSE
    /\ buffer = <<>>
    /\ offset = 0
    /\ last_read = NoRead
    /\ trade = <<>>
    /\ tx = <<>>
    /\ adapter = <<>>
    /\ view = <<>>
    /\ instructions = <<>>
    /\ parsed = <<>>
    /\ ctx = <<>>
    /\ runs = <<>>
    /\ ids = <<>>

decodeFrame ==
    UNCHANGED <<overflow_checks, readerVars, tradeVars, adapterVars, parserVars,
                classifierVars>>

\* decode_instruction_data
DecodeInstructionData ==
    /\ decode_result = <<>>
    /\ decode_result' = <<decode_instruction_data(encoded)>>
    /\ UNCHANGED encoded
    /\ decodeFrame

NextDecode == DecodeInstructionData

SpecDecode == InitDecode /\ [][NextDecode]_vars

(***************************************************************************)
(* parse_instructions of the two event parsers and the trade parsers over  *)
(* them, on a list of classified instructions.                             *)
(***************************************************************************)
\* The mutant of get_prev_instruction_by_index: the head of the list stands for
\* the instruction before.
get_head_instruction_by_index(list, outer_index, inner_index) ==
    LET hits == {i \in 2..Len(list) : /\ list[i].outer_index = outer_index
                                      /\ list[i].inner_index = inner_index}
    IN  IF hits = {} THEN <<>> ELSE <<list[1]>>

\* The instruction before the first one, not at the head of the list, that has
\* the given outer and inner index.
get_prev_instruction_by_index(list, outer_index, inner_index) ==
    LET hits == {i \in 2..Len(list) : /\ list[i].outer_index = outer_index
                                      /\ list[i].inner_index = inner_index}
    IN  IF hits = {} THEN <<>>
        ELSE <<list[(CHOOSE i \in hits : \A j \in hits : i <= j) - 1]>>

Failure(r) == [kind |-> r.kind, error |-> r.error, events |-> <<>>]

\* What parse_instructions does with the event decoded from `classified`.
with_bonding_curve(event, prev) ==
    IF /\ event.event_type \in {"Buy", "Sell"}
       /\ prev # <<>>
       /\ Len(prev[1].data.accounts) >= 4
    THEN [event EXCEPT !.bonding_curve = <<prev[1].data.accounts[4]>>]
    ELSE event

\* The mutant of finish_meme_event: the timestamp decoded from the payload stays.
finish_meme_event_payload_time(list, classified, event) ==
    [with_bonding_curve(event,
                        get_prev_instruction_by_index(list, classified.outer_index,
                                                      classified.inner_index))
       EXCEPT !.signature = AdapterSignature, !.slot = AdapterSlot,
              !.idx = format_idx(classified)]

finish_meme_event(list, classified, event) ==
    [with_bonding_curve(event,
                        get_prev_instruction_by_index(list, classified.outer_index,
                                                      classified.inner_index))
       EXCEPT !.signature = AdapterSignature, !.slot = AdapterSlot,
              !.timestamp = AdapterBlockTime, !.idx = format_idx(classified)]

decode_meme_event(discriminator, payload) ==
    IF discriminator = pumpfun_events.TRADE THEN <<decode_trade_event(payload)>>
    ELSE IF discriminator = pumpfun_events.CREATE THEN <<decode_create_event(payload)>>
    ELSE IF discriminator = pumpfun_events.COMPLETE THEN <<decode_complete_event(payload)>>
    ELSE IF discriminator = pumpfun_events.MIGRATE THEN <<decode_migrate_event(payload)>>
    ELSE <<>>

\* The loop of PumpfunEventParser::parse_instructions from instruction i on:
\* an instruction with less than 16 bytes of data or an unknown discriminator is
\* passed over, `?` returns the error of a failed decoding, and the events
\* pushed are sorted at the end.
RECURSIVE pumpfun_loop(_, _, _)
pumpfun_step(list, i, events, data, decoded) ==
    IF Len(data) < 16 \/ decoded = <<>> THEN pumpfun_loop(list, i + 1, events)
    ELSE IF decoded[1].kind # "ok" THEN Failure(decoded[1])
    ELSE pumpfun_loop(list, i + 1,
                      Append(events, finish_meme_event(list, list[i], decoded[1].event[1])))

pumpfun_decode(data) ==
    IF Len(data) < 16 THEN <<>>
    ELSE decode_meme_event(SubSeq(data, 1, 16), SubSeq(data, 17, Len(data)))

pumpfun_loop(list, i, events) ==
    IF i > Len(list) THEN [kind |-> "ok", error |-> None, events |-> sort_by_idx(events)]
    ELSE pumpfun_step(list, i, events, get_instruction_data(list[i].data),
                      pumpfun_decode(get_instruction_data(list[i].data)))

pumpfun_parse_instructions(list) == pumpfun_loop(list, 1, <<>>)

pumpswap_event_type(discriminator) ==
    IF discriminator = pumpswap_events.CREATE_POOL THEN <<"Create">>
    ELSE IF discriminator = pumpswap_events.ADD_LIQUIDITY THEN <<"Add">>
    ELSE IF discriminator = pumpswap_events.REMOVE_LIQUIDITY THEN <<"Remove">>
    ELSE IF discriminator = pumpswap_events.BUY THEN <<"Buy">>
    ELSE IF discriminator = pumpswap_events.SELL THEN <<"Sell">>
    ELSE <<>>

PumpswapEvent(classified, event_type, data) ==
    [event_type |-> event_type, data |-> data, slot |-> AdapterSlot,
     timestamp |-> AdapterBlockTime, signature |-> AdapterSignature,
     idx |-> format_idx(classified), signer |-> AdapterSigners]

\* The loop of PumpswapEventParser::parse_instructions from instruction i on.
RECURSIVE pumpswap_loop(_, _, _)
pumpswap_step(list, i, events, event_type, decoded) ==
    IF event_type = <<>> THEN pumpswap_loop(list, i + 1, events)
    ELSE IF decoded[1].kind # "ok" THEN Failure(decoded[1])
    ELSE pumpswap_loop(list, i + 1,
                       Append(events, PumpswapEvent(list[i], event_type[1],
                                                    decoded[1].data[1])))

pumpswap_type_of(data) ==
    IF Len(data) < 16 THEN <<>> ELSE pumpswap_event_type(SubSeq(data, 1, 16))

pumpswap_decode(event_type, data) ==
    IF event_type = <<>> THEN <<>>
    ELSE <<decode_event(event_type[1], SubSeq(data, 17, Len(data)))>>

pumpswap_loop(list, i, events) ==
    IF i > Len(list) THEN [kind |-> "ok", error |-> None, events |-> sort_by_idx(events)]
    ELSE pumpswap_step(list, i, events,
                       pumpswap_type_of(get_instruction_data(list[i].data)),
                       pumpswap_decode(pumpswap_type_of(get_instruction_data(list[i].data)),
                                       get_instruction_data(list[i].data)))

pumpswap_parse_instructions(list) == pumpswap_loop(list, 1, <<>>)

\* match result { Ok(events) => events, Err(err) => { log; Vec::new() } }
events_or_none(result) == IF result.kind = "err" THEN <<>> ELSE result.events

\* PumpswapParser::parse_events
parse_events(list) == events_or_none(pumpswap_parse_instructions(list))

get_pumpfun_trade_info(event, dex_info) ==
    [trade_type |-> event.event_type,
     pool |-> event.pool,
     input_token |-> IF event.input_token # <<>> THEN event.input_token[1]
                     ELSE build_token_info(event.base_mint, 0, 6),
     output_token |-> IF event.output_token # <<>> THEN event.output_token[1]
                      ELSE build_token_info(event.quote_mint, 0, 9),
     fee |-> <<>>,
     fees |-> <<>>,
     user |-> <<event.user>>,
     program_id |-> IF dex_info.program_id = None THEN PUMP_FUN_PROGRAM_ID
                    ELSE dex_info.program_id,
     amm |-> IF dex_info.amm = None THEN PUMP_FUN_PROGRAM_NAME ELSE dex_info.amm,
     slot |-> AdapterSlot,
     timestamp |-> event.timestamp,
     signature |-> event.signature,
     idx |-> event.idx,
     signer |-> <<AdapterSigners>>]

RECURSIVE trades_of(_, _, _)
trades_of(events, dex_info, transfers) ==
    IF events = <<>> THEN <<>>
    ELSE LET rest == trades_of(Tail(events), dex_info, transfers)
         IN  IF events[1].event_type \in {"Buy", "Sell"}
             THEN <<attach_token_transfers(get_pumpfun_trade_info(events[1], dex_info),
                                           transfers)>> \o rest
             ELSE rest

\* PumpfunParser::process_trades: an error of parse_events is logged and no
\* trade is returned.
process_trades(list, dex_info, transfers) ==
    trades_of(events_or_none(pumpfun_parse_instructions(list)), dex_info, transfers)

\* The classified instructions the parsers are handed.
MaxInstr == 3

ListData == {"Trade", "ShortTrade", "BuyEvent", "ShortSell", "Short"}

SingleData == (DOMAIN EncodedData) \ ListData

\* <<outer_index, inner_index>> of a classified instruction.
Positions == {<<2, <<>>>>, <<9, <<>>>>, <<10, <<>>>>, <<9, <<1>>>>}

Classified(position, program_id, accounts, data) ==
    [program_id |-> program_id, outer_index |-> position[1], inner_index |-> position[2],
     data |-> [program_id |-> program_id, accounts |-> accounts, data |-> data]]

InstructionAccounts == <<"Global", "FeeRecipient", "Mint", "BondingCurve", "User">>

\* The accounts of the instruction at a position: three accounts for outer
\* instruction 9, five with a bonding curve of their own for the others.
AccountsAt(p) ==
    CASE p = <<9, <<>>>> -> <<"Global", "FeeRecipient", "Mint">>
      [] p = <<10, <<>>>> -> <<"Global", "FeeRecipient", "Mint", "BondingCurve10", "User">>
      [] p = <<9, <<1>>>> -> <<"Global", "FeeRecipient", "Mint", "BondingCurve9", "User">>
      [] OTHER -> InstructionAccounts

ListInstructions ==
    {Classified(p, PUMP_FUN_PROGRAM_ID, AccountsAt(p), d) :
        p \in Positions, d \in ListData}

\* Lists of instructions at distinct positions, in any order; and lists of one
\* instruction for each of the other kinds of data.
InstructionLists ==
    {l \in SeqsUpTo(ListInstructions, MaxInstr) :
        \A i, j \in 1..Len(l) :
            i # j => <<l[i].outer_index, l[i].inner_index>>
                     # <<l[j].outer_index, l[j].inner_index>>}
    \cup {<<Classified(<<2, <<1>>>>, PUMP_SWAP_PROGRAM_ID, <<>>, d)>> : d \in SingleData}
    \cup {<<Classified(<<2, <<>>>>, PUMP_FUN_PROGRAM_ID, InstructionAccounts, o),
            Classified(<<2, <<0>>>>, PUMP_FUN_PROGRAM_ID, <<>>, d)>> :
              o \in {"Short", "Trade"}, d \in {"Trade", "TradeSell"}}

InitParser ==
    /\ instructions \in InstructionLists
    /\ parsed = <<>>
    /\ overflow_checks = FALSE
    /\ buffer = <<>>
    /\ offset = 0
    /\ last_read = NoRead
    /\ trade = <<>>
    /\ tx = <<>>
    /\ adapter = <<>>
    /\ view = <<>>
    /\ ctx = <<>>
    /\ runs = <<>>
    /\ ids = <<>>
    /\ encoded = <<>>
    /\ decode_result = <<>>

parserFrame ==
    UNCHANGED <<overflow_checks, readerVars, tradeVars, adapterVars, classifierVars,
                decodeVars>>

Parsed(op, result) == [op |-> op, result |-> result]

\* PumpfunEventParser::parse_instructions
PumpfunParseInstructions ==
    /\ parsed = <<>>
    /\ parsed' = <<Parsed("PumpfunEventParser::parse_instructions",
                          pumpfun_parse_instructions(instructions))>>
    /\ UNCHANGED instructions
    /\ parserFrame

\* PumpswapEventParser::parse_instructions
PumpswapParseInstructions ==
    /\ parsed = <<>>
    /\ parsed' = <<Parsed("PumpswapEventParser::parse_instructions",
                          pumpswap_parse_instructions(instructions))>>
    /\ UNCHANGED instructions
    /\ parserFrame

\* PumpfunParser::process_trades
PumpfunProcessTrades ==
    /\ parsed = <<>>
    /\ \E dex_info \in {[program_id |-> None, amm |-> None]} :
          parsed' = <<Parsed("PumpfunParser::process_trades",
                             process_trades(instructions, dex_info, EmptyMap))>>
    /\ UNCHANGED instructions
    /\ parserFrame

\* PumpswapParser::parse_events
PumpswapParseEvents ==
    /\ parsed = <<>>
    /\ parsed' = <<Parsed("PumpswapParser::parse_events", parse_events(instructions))>>
    /\ UNCHANGED instructions
    /\ parserFrame

\* The decoder PumpfunEventParser::parse_instructions picks for the data of an
\* instruction (decode_trade_event, decode_create_event, decode_complete_event,
\* decode_migrate_event), before the event is tagged.
DecodeMemeEvent ==
    /\ parsed = <<>>
    /\ Len(instructions) = 1
    /\ pumpfun_decode(get_instruction_data(instructions[1].data)) # <<>>
    /\ parsed' = <<Parsed("PumpfunEventParser::decode",
                          pumpfun_decode(get_instruction_data(instructions[1].data))[1])>>
    /\ UNCHANGED instructions
    /\ parserFrame

\* PumpswapEventParser::decode_event
DecodeEvent ==
    /\ parsed = <<>>
    /\ Len(instructions) = 1
    /\ pumpswap_type_of(get_instruction_data(instructions[1].data)) # <<>>
    /\ parsed' = <<Parsed("PumpswapEventParser::decode_event",
                          pumpswap_decode(
                              pumpswap_type_of(get_instruction_data(instructions[1].data)),
                              get_instruction_data(instructions[1].data))[1])>>
    /\ UNCHANGED instructions
    /\ parserFrame

NextParser ==
    \/ DecodeMemeEvent
    \/ DecodeEvent
    \/ PumpfunParseInstructions
    \/ PumpswapParseInstructions
    \/ PumpfunProcessTrades
    \/ PumpswapParseEvents

SpecParser == InitParser /\ [][NextParser]_vars

(***************************************************************************)
(* InstructionClassifier and SimpleMemeParser                              *)
(*                                                                         *)
(* A program id is a string; "" is the empty program id.  A HashMap is a   *)
(* function on its set of keys; the order in which an instance hands out   *)
(* its entries (values()) is fixed by the hasher state drawn when the map  *)
(* is built, and is a parameter `iteration` of the operators that walk it. *)
(***************************************************************************)

\* crate::constants::SYSTEM_PROGRAMS: system, token, token-2022, associated token
\* account, memo, compute budget, address lookup table.
SYSTEM_PROGRAMS ==
    {SYSTEM_PROGRAM_ID, "TokenkegQfeZyiNwAJbNbGKPFXCWuBvf9Ss623VQ5DA",
     "TokenzQdBNbLqP5VEhdkAS6EPFLC1PHnBqCXEpPxuEb",
     "ATokenGPvbdGVxr1b2hvZbsiqW5xWH25efTNsLJA8knL",
     "MemoSq4gqABAXKb96qnH8TysNcWxMyWCqXgDLGmfcHr",
     "ComputeBudget111111111111111111111111111111",
     "AddressLookupTab1e1111111111111111111111111"}

\* crate::constants::SKIP_PROGRAM_IDS: the explicitly skipped program ids.
SKIP_PROGRAM_IDS == {"SkipProgram"}

ClassifiedInstruction(program_id, outer_index, inner_index, data) ==
    [program_id |-> program_id, outer_index |-> outer_index,
     inner_index |-> inner_index, data |-> data]

\* instruction_map.entry(program_id).or_default().push(classified)
push_entry(map, program_id, classified) ==
    IF Has(map, program_id)
    THEN [map EXCEPT ![program_id] = Append(@, classified)]
    ELSE Put(map, program_id, <<classified>>)

\* The mutant of classify: order.push(program_id) whether or not the id was seen.
classify_unseen(state, program_id, classified) ==
    IF program_id = "" THEN state
    ELSE [instruction_map |-> push_entry(state.instruction_map, program_id, classified),
          order |-> Append(state.order, program_id),
          seen |-> state.seen \cup {program_id}]

\* The mutant of classify: only the first instruction of a program id is filed.
classify_first_only(state, program_id, classified) ==
    IF program_id = "" \/ program_id \in state.seen THEN state
    ELSE [instruction_map |-> push_entry(state.instruction_map, program_id, classified),
          order |-> Append(state.order, program_id),
          seen |-> state.seen \cup {program_id}]

\* The body of both loops of new: skip an empty program id, file the instruction
\* under its program id, and note the id the first time it is seen.
classify(state, program_id, classified) ==
    IF program_id = "" THEN state
    ELSE [instruction_map |-> push_entry(state.instruction_map, program_id, classified),
          order |-> IF program_id \in state.seen THEN state.order
                    ELSE Append(state.order, program_id),
          seen |-> state.seen \cup {program_id}]

\* for (outer_index, instruction) in adapter.instructions().iter().cloned().enumerate()
RECURSIVE outer_loop(_, _, _)
outer_loop(list, i, state) ==
    IF i > Len(list) THEN state
    ELSE outer_loop(list, i + 1,
             classify(state, list[i].program_id,
                      ClassifiedInstruction(list[i].program_id, i - 1, <<>>, list[i])))

\* for (inner_index, instruction) in inner.instructions.iter().cloned().enumerate()
RECURSIVE block_loop(_, _, _)
block_loop(inner, j, state) ==
    IF j > Len(inner.instructions) THEN state
    ELSE block_loop(inner, j + 1,
             classify(state, inner.instructions[j].program_id,
                      ClassifiedInstruction(inner.instructions[j].program_id, inner.index,
                                            <<j - 1>>, inner.instructions[j])))

\* for inner in adapter.inner_instructions()
RECURSIVE inner_loop(_, _, _)
inner_loop(blocks, b, state) ==
    IF b > Len(blocks) THEN state
    ELSE inner_loop(blocks, b + 1, block_loop(blocks[b], 1, state))

InstructionClassifier(state) ==
    [instruction_map |-> state.instruction_map, order |-> state.order]

\* InstructionClassifier::new
new(t) ==
    InstructionClassifier(
        inner_loop(t.inner_instructions, 1,
            outer_loop(t.instructions, 1,
                [instruction_map |-> EmptyMap, order |-> <<>>, seen |-> {}])))

\* InstructionClassifier::get_all_program_ids
get_all_program_ids(classifier) ==
    SelectSeq(classifier.order,
              LAMBDA pid : pid \notin SYSTEM_PROGRAMS /\ pid \notin SKIP_PROGRAM_IDS)

\* InstructionClassifier::get_instructions
get_instructions(classifier, program_id) ==
    IF Has(classifier.instruction_map, program_id)
    THEN classifier.instruction_map[program_id]
    ELSE <<>>

\* InstructionClassifier::get_multi_instructions
RECURSIVE get_multi_instructions(_, _)
get_multi_instructions(classifier, program_ids) ==
    IF program_ids = <<>> THEN <<>>
    ELSE get_instructions(classifier, Head(program_ids))
         \o get_multi_instructions(classifier, Tail(program_ids))

\* The orders in which a HashMap with these entries can hand them out: every
\* arrangement of its keys.
RECURSIVE Arrangements(_)
Arrangements(S) ==
    IF S = {} THEN {<<>>}
    ELSE UNION {{<<x>> \o s : s \in Arrangements(S \ {x})} : x \in S}

Iterations(map) == Arrangements(DOMAIN map)

\* HashMap::values
values(map, iteration) == [i \in 1..Len(iteration) |-> map[iteration[i]]]

\* data.len() >= slice && &data[..slice] == discriminator
matches(data, discriminator, slice) ==
    /\ Len(data) >= slice
    /\ SubSeq(data, 1, slice) = discriminator

\* for ci in instructions { .. return Some(ci.clone()) }
RECURSIVE find_instruction(_, _, _, _)
find_instruction(list, i, discriminator, slice) ==
    IF i > Len(list) THEN <<>>
    ELSE IF matches(get_instruction_data(list[i].data), discriminator, slice)
         THEN <<list[i]>>
         ELSE find_instruction(list, i + 1, discriminator, slice)

\* for instructions in self.instruction_map.values() { .. }; None
RECURSIVE find_in_values(_, _, _, _)
find_in_values(lists, v, discriminator, slice) ==
    IF v > Len(lists) THEN <<>>
    ELSE IF find_instruction(lists[v], 1, discriminator, slice) # <<>>
         THEN find_instruction(lists[v], 1, discriminator, slice)
         ELSE find_in_values(lists, v + 1, discriminator, slice)

\* InstructionClassifier::get_instruction_by_discriminator
get_instruction_by_discriminator(classifier, iteration, discriminator, slice) ==
    find_in_values(values(classifier.instruction_map, iteration), 1, discriminator, slice)

\* InstructionClassifier::flatten
flatten(classifier, iteration) == Flatten(values(classifier.instruction_map, iteration))

\* format!("{} -> {} {}", transfer.from, transfer.to, transfer.amount.amount)
description(transfer) ==
    <<transfer.from, " -> ", transfer.to, " ">> \o to_string(transfer.amount.amount)

SimpleMemeEvent(transfer, signature) ==
    [program_id |-> transfer.program_id, event_type |-> "meme-event",
     signature |-> signature, description |-> description(transfer)]

meme_events(transfers, signature) ==
    [i \in 1..Len(transfers) |-> SimpleMemeEvent(transfers[i], signature)]

\* SimpleMemeParser::process_events
process_events(transfer_actions, iteration, signature) ==
    meme_events(Flatten(values(transfer_actions, iteration)), signature)

\* The transactions handed to the classifier and the transfer maps handed to
\* SimpleMemeParser.
MaxOuter == 2

ProgramIds ==
    {"", PUMP_FUN_PROGRAM_ID, PUMP_SWAP_PROGRAM_ID, SYSTEM_PROGRAM_ID, "SkipProgram"}

SolanaInstruction(program_id, data) ==
    [program_id |-> program_id, accounts |-> <<>>, data |-> data]

OuterInstructionSet ==
    {SolanaInstruction(p, "Trade") : p \in ProgramIds \ SKIP_PROGRAM_IDS}
    \cup {SolanaInstruction(PUMP_FUN_PROGRAM_ID, "Complete")}

InnerInstruction(index, list) == [index |-> index, instructions |-> list]

InnerBlocks ==
    {<<>>}
    \cup {<<InnerInstruction(0, <<SolanaInstruction(p, "Trade")>>)>> : p \in ProgramIds}
    \cup {<<InnerInstruction(0, <<SolanaInstruction(p, "Trade")>>),
            InnerInstruction(1, <<SolanaInstruction(q, "Complete"),
                                  SolanaInstruction(p, "Trade")>>)>> :
              p \in ProgramIds, q \in {PUMP_SWAP_PROGRAM_ID}}

TransferData(program_id, from, to, amount, idx) ==
    [program_id |-> program_id, from |-> from, to |-> to,
     amount |-> [mint |-> SOL_MINT, amount |-> amount, decimals |-> 9], idx |-> idx]

TransferMaps ==
    {EmptyMap,
     Put(EmptyMap, "transfer", <<TransferData(PUMP_FUN_PROGRAM_ID, "A", "B", 5, <<"0", "-", "0">>),
                                 TransferData(PUMP_FUN_PROGRAM_ID, "B", "A", 7, <<"0", "-", "1">>)>>),
     Put(Put(EmptyMap, "transfer", <<TransferData(PUMP_FUN_PROGRAM_ID, "A", "B", 5, <<"0", "-", "0">>)>>),
         "transferChecked", <<TransferData(PUMP_SWAP_PROGRAM_ID, "B", "C", 12, <<"1", "-", "0">>)>>)}

Transaction(outer, inner, transfers) ==
    [instructions |-> outer, inner_instructions |-> inner, transfer_actions |-> transfers]

Transactions ==
    {Transaction(outer, inner, EmptyMap) :
        outer \in SeqsUpTo(OuterInstructionSet, MaxOuter), inner \in InnerBlocks}
    \cup {Transaction(<<SolanaInstruction(PUMP_FUN_PROGRAM_ID, "Trade")>>, <<>>, transfers) :
            transfers \in TransferMaps}

InitClassifier ==
    /\ ctx \in Transactions
    /\ runs = <<>>
    /\ ids = <<>>
    /\ encoded = <<>>
    /\ decode_result = <<>>
    /\ overflow_checks = FALSE
    /\ buffer = <<>>
    /\ offset = 0
    /\ last_read = NoRead
    /\ trade = <<>>
    /\ tx = <<>>
    /\ adapter = <<>>
    /\ view = <<>>
    /\ instructions = <<>>
    /\ parsed = <<>>

classifierFrame ==
    UNCHANGED <<overflow_checks, readerVars, tradeVars, adapterVars, parserVars,
                decodeVars>>

\* What one parsing run returned from one call.
Output(op, arg, value) == [op |-> op, arg |-> arg, value |-> value]

\* A transaction is parsed at most twice, the second time with the same call.
CanRun(op, arg) ==
    \/ runs = <<>>
    \/ Len(runs) = 1 /\ runs[1].op = op /\ runs[1].arg = arg

DiscriminatorArgs ==
    {<<pumpfun_events.TRADE, 16>>, <<pumpfun_events.COMPLETE, 16>>,
     <<pumpfun_events.CREATE, 16>>, <<<<1>>, 1>>}

\* InstructionClassifier::new, then get_all_program_ids
GetAllProgramIds ==
    /\ CanRun("get_all_program_ids", <<>>)
    /\ runs' = Append(runs, Output("get_all_program_ids", <<>>,
                                   get_all_program_ids(new(ctx))))
    /\ ids' = <<get_all_program_ids(new(ctx))>>
    /\ UNCHANGED ctx
    /\ classifierFrame

\* InstructionClassifier::new, then get_instructions
GetInstructions ==
    /\ \E program_id \in ProgramIds :
          /\ CanRun("get_instructions", <<program_id>>)
          /\ runs' = Append(runs, Output("get_instructions", <<program_id>>,
                                         get_instructions(new(ctx), program_id)))
    /\ UNCHANGED <<ctx, ids>>
    /\ classifierFrame

\* InstructionClassifier::new, then get_multi_instructions
GetMultiInstructions ==
    /\ \E program_ids \in {<<PUMP_FUN_PROGRAM_ID, PUMP_SWAP_PROGRAM_ID>>,
                          <<PUMP_SWAP_PROGRAM_ID, "Unknown", PUMP_FUN_PROGRAM_ID>>} :
          /\ CanRun("get_multi_instructions", program_ids)
          /\ runs' = Append(runs, Output("get_multi_instructions", program_ids,
                                         get_multi_instructions(new(ctx), program_ids)))
    /\ UNCHANGED <<ctx, ids>>
    /\ classifierFrame

\* InstructionClassifier::new, then get_instruction_by_discriminator
GetInstructionByDiscriminator ==
    /\ \E arg \in DiscriminatorArgs, iteration \in Iterations(new(ctx).instruction_map) :
          /\ CanRun("get_instruction_by_discriminator", arg)
          /\ runs' = Append(runs, Output("get_instruction_by_discriminator", arg,
                         get_instruction_by_discriminator(new(ctx), iteration,
                                                          arg[1], arg[2])))
    /\ UNCHANGED <<ctx, ids>>
    /\ classifierFrame

\* InstructionClassifier::new, then flatten
FlattenInstructions ==
    /\ CanRun("flatten", <<>>)
    /\ \E iteration \in Iterations(new(ctx).instruction_map) :
          runs' = Append(runs, Output("flatten", <<>>, flatten(new(ctx), iteration)))
    /\ UNCHANGED <<ctx, ids>>
    /\ classifierFrame

\* SimpleMemeParser::new, then process_events
ProcessEvents ==
    /\ CanRun("process_events", <<>>)
    /\ \E iteration \in Iterations(ctx.transfer_actions) :
          runs' = Append(runs, Output("process_events", <<>>,
                         process_events(ctx.transfer_actions, iteration, AdapterSignature)))
    /\ UNCHANGED <<ctx, ids>>
    /\ classifierFrame

NextClassifier ==
    \/ GetAllProgramIds
    \/ GetInstructions
    \/ GetMultiInstructions
    \/ GetInstructionByDiscriminator
    \/ FlattenInstructions
    \/ ProcessEvents

SpecClassifier == InitClassifier /\ [][NextClassifier]_vars

(***************************************************************************)
(* The token maps of the adapter (core/transaction_adapter.rs,             *)
(* extract_token_info): spl_token_map from a token account to its mint and *)
(* decimals, spl_decimals_map from a mint to its decimals.  Accounts and   *)
(* mints are strings here; the data of an instruction is a name and        *)
(* TokenInstructionData gives its bytes.                                   *)
(***************************************************************************)
TOKEN_PROGRAM_ID == "TokenkegQfeZyiNwAJbNbGKPFXCWuBvf9Ss623VQ5DA"

TOKEN_2022_PROGRAM_ID == "TokenzQdBNbLqP5VEhdkAS6EPFLC1PHnBqCXEpPxuEb"

TOKENS == [SOL |-> SOL_MINT]

SPL_TOKEN_INSTRUCTION_TYPES ==
    [InitializeMint |-> 0, Transfer |-> 3, MintTo |-> 7, Burn |-> 8, CloseAccount |-> 9,
     TransferChecked |-> 12, MintToChecked |-> 14, BurnChecked |-> 15]

TokenInstructionData ==
    [Transfer |-> <<3>> \o Zeros(8),
     TransferChecked |-> <<12>> \o Zeros(8) \o <<2>>,
     TransferCheckedShort |-> <<12>> \o Zeros(8),
     MintToChecked |-> <<14>> \o Zeros(8) \o <<2>>,
     Burn |-> <<8>> \o Zeros(8),
     NoData |-> <<>>]

\* crate::utils::get_instruction_data: the bytes of the data of an instruction.
instruction_bytes(ix) == TokenInstructionData[ix.data]

SplTokenInfo(mint, amount, amount_raw, decimals) ==
    [mint |-> mint, amount |-> amount, amount_raw |-> amount_raw, decimals |-> decimals]

TokenMaps(spl_token_map, spl_decimals_map) ==
    [spl_token_map |-> spl_token_map, spl_decimals_map |-> spl_decimals_map]

\* HashMap::entry(k).or_insert(v)
or_insert(map, k, v) == IF Has(map, k) THEN map ELSE Put(map, k, v)

\* The body of the loop of extract_token_balances.
extract_token_balance(maps, balance) ==
    IF balance.mint = "" THEN maps
    ELSE TokenMaps(or_insert(maps.spl_token_map, balance.account,
                             SplTokenInfo(balance.mint,
                                          UnwrapOr(balance.ui_token_amount.ui_amount, <<0, 0>>),
                                          balance.ui_token_amount.amount,
                                          balance.ui_token_amount.decimals)),
                   or_insert(maps.spl_decimals_map, balance.mint,
                             balance.ui_token_amount.decimals))

RECURSIVE balances_from(_, _)
balances_from(maps, balances) ==
    IF balances = <<>> THEN maps
    ELSE balances_from(extract_token_balance(maps, balances[1]), Tail(balances))

extract_token_balances(t, maps) ==
    IF t.post_token_balances = <<>> THEN maps
    ELSE balances_from(maps, t.post_token_balances[1])

\* One of the two halves of set_token_info, for the source or the destination.
set_account_info(map, account, mint, decimals) ==
    IF account = <<>> THEN map
    ELSE IF Has(map, account[1]) /\ mint # <<>> /\ decimals # <<>>
    THEN Put(map, account[1], SplTokenInfo(mint[1], <<0, 0>>, <<"0">>, decimals[1]))
    ELSE IF ~Has(map, account[1])
    THEN Put(map, account[1],
             SplTokenInfo(UnwrapOr(mint, TOKENS.SOL), <<0, 0>>, <<"0">>, UnwrapOr(decimals, 9)))
    ELSE map

set_token_info(maps, source, destination, mint, decimals) ==
    TokenMaps(
        set_account_info(set_account_info(maps.spl_token_map, source, mint, decimals),
                         destination, mint, decimals),
        IF mint # <<>> /\ decimals # <<>>
        THEN or_insert(maps.spl_decimals_map, mint[1], decimals[1])
        ELSE maps.spl_decimals_map)

extract_from_parsed_transfer(maps, ix) ==
    IF ix.parsed = <<>> \/ ix.program_id = "" THEN maps
    ELSE IF ix.program_id \notin {TOKEN_PROGRAM_ID, TOKEN_2022_PROGRAM_ID} THEN maps
    ELSE IF ix.parsed[1].info.source = <<>> /\ ix.parsed[1].info.destination = <<>> THEN maps
    ELSE set_token_info(maps, ix.parsed[1].info.source, ix.parsed[1].info.destination,
                        ix.parsed[1].info.mint, ix.parsed[1].info.decimals)

\* decoded.get(9).copied()
decimals_byte(decoded) == IF Len(decoded) >= 10 THEN <<decoded[10]>> ELSE <<>>

\* The match of extract_from_compiled_transfer on the first byte: <<>> where an
\* arm returns, else <<source, destination, mint, decimals>>.
transfer_accounts(decoded, accounts) ==
    LET n == Len(accounts)
        TYPES == SPL_TOKEN_INSTRUCTION_TYPES
    IN  CASE decoded[1] = TYPES.Transfer ->
               IF n < 2 THEN <<>>
               ELSE <<(<<accounts[1]>>), (<<accounts[2]>>), (<<>>), (<<>>)>>
          [] decoded[1] = TYPES.TransferChecked ->
               IF n < 3 THEN <<>>
               ELSE <<(<<accounts[1]>>), (<<accounts[3]>>), (<<accounts[2]>>),
                      decimals_byte(decoded)>>
          [] decoded[1] = TYPES.InitializeMint ->
               IF n < 2 THEN <<>>
               ELSE <<(<<>>), (<<accounts[2]>>), (<<accounts[1]>>), (<<>>)>>
          [] decoded[1] = TYPES.MintTo ->
               IF n < 2 THEN <<>>
               ELSE <<(<<>>), (<<accounts[2]>>), (<<accounts[1]>>), (<<>>)>>
          [] decoded[1] = TYPES.MintToChecked ->
               IF n < 2 THEN <<>>
               ELSE <<(<<>>), (<<accounts[2]>>), (<<accounts[1]>>), decimals_byte(decoded)>>
          [] decoded[1] = TYPES.Burn ->
               IF n < 2 THEN <<>>
               ELSE <<(<<accounts[1]>>), (<<>>), (<<accounts[2]>>), (<<>>)>>
          [] decoded[1] = TYPES.BurnChecked ->
               IF n < 2 THEN <<>>
               ELSE <<(<<accounts[1]>>), (<<>>), (<<accounts[2]>>), decimals_byte(decoded)>>
          [] decoded[1] = TYPES.CloseAccount ->
               IF n < 2 THEN <<>>
               ELSE <<(<<accounts[1]>>), (<<accounts[2]>>), (<<>>), (<<>>)>>
          [] OTHER -> <<(<<>>), (<<>>), (<<>>), (<<>>)>>

set_from_match(maps, matched) ==
    IF matched = <<>> THEN maps
    ELSE set_token_info(maps, matched[1], matched[2], matched[3], matched[4])

extract_from_compiled_transfer(maps, ix) ==
    IF instruction_bytes(ix) = <<>> THEN maps
    ELSE IF ix.program_id \notin {TOKEN_PROGRAM_ID, TOKEN_2022_PROGRAM_ID} THEN maps
    ELSE IF ix.accounts = <<>> THEN maps
    ELSE set_from_match(maps, transfer_accounts(instruction_bytes(ix), ix.accounts))

\* is_compiled_instruction: instruction.parsed.is_none()
extract_from_instruction(maps, ix) ==
    IF ix.parsed = <<>> THEN extract_from_compiled_transfer(maps, ix)
    ELSE extract_from_parsed_transfer(maps, ix)

RECURSIVE instructions_from(_, _)
instructions_from(maps, ixs) ==
    IF ixs = <<>> THEN maps
    ELSE instructions_from(extract_from_instruction(maps, ixs[1]), Tail(ixs))

RECURSIVE blocks_from(_, _)
blocks_from(maps, blocks) ==
    IF blocks = <<>> THEN maps
    ELSE blocks_from(instructions_from(maps, blocks[1].instructions), Tail(blocks))

\* extract_token_from_instructions: the outer instructions, then the inner ones.
extract_token_from_instructions(t, maps) ==
    blocks_from(instructions_from(maps, t.instructions), t.inner_instructions)

\* The end of extract_token_info: the entries of native SOL, unless there.
ensure_sol(maps) ==
    TokenMaps(or_insert(maps.spl_token_map, TOKENS.SOL,
                        SplTokenInfo(TOKENS.SOL, <<0, 0>>, <<"0">>, 9)),
              or_insert(maps.spl_decimals_map, TOKENS.SOL, 9))

extract_token_info(t) ==
    ensure_sol(extract_token_from_instructions(
                   t, extract_token_balances(t, TokenMaps(EmptyMap, EmptyMap))))

\* The transactions whose token maps are extracted.
MaxTokenIx == 2

PostBalance(account, mint, decimals) ==
    [account |-> account, mint |-> mint,
     ui_token_amount |-> TokenAmount(<<"5">>, <<<<5, decimals>>>>, decimals)]

PostTokenBalanceLists ==
    {<<>>,
     <<<<>>>>,
     <<<<PostBalance("AccA", "MintA", 6)>>>>,
     <<<<PostBalance("AccA", "MintA", 6), PostBalance("AccB", "MintB", 5)>>>>,
     <<<<PostBalance("AccA", "MintA", 6), PostBalance("AccA", "MintB", 5)>>>>,
     <<<<PostBalance("AccA", SOL_MINT, 6)>>>>,
     <<<<PostBalance("AccA", "", 6), PostBalance("AccB", "MintA", 6)>>>>}

Compiled(program_id, accounts, data) ==
    [program_id |-> program_id, accounts |-> accounts, data |-> data, parsed |-> <<>>]

ParsedTransfer(program_id, source, destination, mint, decimals) ==
    [program_id |-> program_id, accounts |-> <<>>, data |-> "NoData",
     parsed |-> <<[info |-> [source |-> source, destination |-> destination,
                             mint |-> mint, decimals |-> decimals]]>>]

TokenInstructions ==
    {Compiled(TOKEN_PROGRAM_ID, <<"AccA", "MintB", "AccB">>, "TransferChecked"),
     Compiled(TOKEN_2022_PROGRAM_ID, <<"AccB", SOL_MINT, "AccC">>, "TransferChecked"),
     Compiled(TOKEN_PROGRAM_ID, <<"AccA", "MintB", "AccC">>, "TransferCheckedShort"),
     Compiled(TOKEN_PROGRAM_ID, <<"AccA", "AccC">>, "Transfer"),
     Compiled(TOKEN_PROGRAM_ID, <<"MintA", "AccC">>, "MintToChecked"),
     Compiled(TOKEN_PROGRAM_ID, <<"AccB">>, "Burn"),
     Compiled(TOKEN_PROGRAM_ID, <<"AccA", "AccB">>, "NoData"),
     Compiled(PUMP_FUN_PROGRAM_ID, <<"AccA", "MintB", "AccB">>, "TransferChecked"),
     ParsedTransfer(TOKEN_PROGRAM_ID, <<"AccA">>, <<"AccC">>, <<"MintB">>, <<2>>),
     ParsedTransfer(TOKEN_PROGRAM_ID, <<>>, <<>>, <<"MintB">>, <<2>>)}

TokenInnerBlocks ==
    {<<>>,
     <<[index |-> 0,
        instructions |->
            <<Compiled(TOKEN_PROGRAM_ID, <<"AccC", "MintA", "AccA">>, "TransferChecked")>>]>>}

TokenInfoTxs ==
    {[post_token_balances |-> post, instructions |-> ixs, inner_instructions |-> inner] :
        post \in PostTokenBalanceLists, ixs \in SeqsUpTo(TokenInstructions, MaxTokenIx),
        inner \in TokenInnerBlocks}

InitTokens ==
    /\ tx \in {<<t>> : t \in TokenInfoTxs}
    /\ adapter = <<>>
    /\ view = <<>>
    /\ overflow_checks = FALSE
    /\ buffer = <<>>
    /\ offset = 0
    /\ last_read = NoRead
    /\ trade = <<>>
    /\ instructions = <<>>
    /\ parsed = <<>>
    /\ ctx = <<>>
    /\ runs = <<>>
    /\ ids = <<>>
    /\ encoded = <<>>
    /\ decode_result = <<>>

\* TransactionAdapter::new: the token maps that extract_token_info fills.
ExtractTokenInfo ==
    /\ adapter = <<>>
    /\ adapter' = <<extract_token_info(tx[1])>>
    /\ UNCHANGED <<tx, view>>
    /\ adapterFrame

NextTokens == ExtractTokenInfo

SpecTokens == InitTokens /\ [][NextTokens]_vars

IsRead(r) == r.op \notin {"new", "remaining"}

\* The last read asked check_bounds for more bytes than were left.
Overrun(r) ==
    IF r.op = "read_string" /\ Len(buffer) - r.at >= 4
    THEN r.requested > Len(buffer) - (r.at + 4)
    ELSE r.requested > Len(buffer) - r.at

\* C1: after any sequence of reads 0 <= offset <= buffer length, and a read
\* that asks for more bytes than remain returns an error (and no bytes).
C1_ReadsStayInBounds ==
    /\ 0 <= offset /\ offset <= Len(buffer)
    /\ (IsRead(last_read) /\ Overrun(last_read))
          => (last_read.kind = "err" /\ last_read.bytes = <<>>)


\* The sum of the amount_raw strings of a fees[] list, each parsed as decimal.
FeesTotal(fees) ==
    SumSeq([i \in 1..Len(fees) |-> UnwrapOr(ParseU64(fees[i].amount_raw), 0)])

\* C2: for every trade built from a Pumpswap Buy or Sell event, fee.amount_raw
\* is the decimal string of protocol_fee + coin_creator_fee, and the amount_raw
\* values of fees[] sum to that value.
C2_FeeIsTotalOfFees ==
    (trade # <<>> /\ trade[1].built # <<>>) =>
        LET t == trade[1].built[1]
            d == trade[1].event.data
        IN  /\ t.fee.amount_raw = to_string(d.protocol_fee + d.coin_creator_fee)
            /\ FeesTotal(t.fees) = d.protocol_fee + d.coin_creator_fee

\* The balance changes a view holds: those of the SOL map, or those of every
\* mint of every account of the token map.
ViewedChanges ==
    IF view = <<>> THEN {}
    ELSE IF view[1].op = "get_account_sol_balance_changes"
    THEN {view[1].value[k] : k \in DOMAIN view[1].value}
    ELSE IF view[1].op = "get_account_token_balance_changes"
    THEN UNION {{view[1].value[k][m] : m \in DOMAIN view[1].value[k]} :
                  k \in DOMAIN view[1].value}
    ELSE {}

Raw(amount) == UnwrapOr(ParseI128(amount.amount), 0)

\* C3: in every entry of a balance-change map, SOL or token, the change is the
\* post amount minus the pre amount in raw units; a token account present only
\* in the pre balances has post 0 and so a change of minus its pre amount.
C3_ChangeIsPostMinusPre ==
    \A c \in ViewedChanges : Raw(c.change) = Raw(c.post) - Raw(c.pre)

\* C4: no balance-change map holds an entry whose change is zero.
C4_NoZeroChange ==
    \A c \in ViewedChanges : Raw(c.change) # 0

\* The first occurrence of every element of a sequence, in order.
RECURSIVE Dedup(_)
Dedup(s) ==
    IF s = <<>> THEN <<>>
    ELSE LET rest == Dedup(SubSeq(s, 1, Len(s) - 1))
         IN  IF s[Len(s)] \in Range(rest) THEN rest ELSE Append(rest, s[Len(s)])

\* C5: the adapter's account keys are the transaction's keys in their original
\* order (static, loaded writable, loaded readonly, then those only the
\* instructions name), and get_account_key(i) is the i-th of them.
C5_AccountKeysKeepOrder ==
    /\ adapter # <<>> => adapter[1].account_keys = Dedup(VisitedKeys(tx[1]))
    /\ (view # <<>> /\ view[1].op = "get_account_key"
          /\ view[1].arg < Len(tx[1].static_account_keys))
       => view[1].value = tx[1].static_account_keys[view[1].arg + 1]

\* C6: when the message states the number of required signatures, signers() is
\* that many of the message's first account keys, in order, and signer() and
\* signers()[0] are the fee payer, the first key of the message.
C6_SignersAreFirstKeys ==
    (view # <<>> /\ tx[1].num_required_signatures # <<>>) =>
       /\ view[1].op = "signers" =>
             view[1].value = SubSeq(tx[1].static_account_keys, 1,
                                    Min(tx[1].num_required_signatures[1],
                                        Len(tx[1].static_account_keys)))
       /\ view[1].op = "signer" => view[1].value = tx[1].static_account_keys[1]

\* The events or trades a parser call returned: none when it returned an error.
ReturnedItems(p) ==
    IF p.op \in {"PumpfunEventParser::parse_instructions",
                 "PumpswapEventParser::parse_instructions"}
    THEN p.result.events
    ELSE p.result

\* What the same call returns for the instruction alone.
AloneItems(p, instruction) ==
    CASE p.op = "PumpfunEventParser::parse_instructions" ->
            pumpfun_parse_instructions(<<instruction>>).events
      [] p.op = "PumpswapEventParser::parse_instructions" ->
            pumpswap_parse_instructions(<<instruction>>).events
      [] p.op = "PumpfunParser::process_trades" ->
            process_trades(<<instruction>>, [program_id |-> None, amm |-> None], EmptyMap)
      [] p.op = "PumpswapParser::parse_events" -> parse_events(<<instruction>>)

HasIdx(items, idx) == \E k \in 1..Len(items) : items[k].idx = idx

\* C7: an instruction whose payload is too short to decode is skipped alone: every
\* other instruction of the list that decodes to an event (or trade) has its
\* event (or trade) in what the Pumpfun and Pumpswap parsers return.
C7_OnlyFailedInstructionSkipped ==
    (/\ parsed # <<>>
     /\ parsed[1].op \in {"PumpfunEventParser::parse_instructions",
                          "PumpswapEventParser::parse_instructions",
                          "PumpfunParser::process_trades",
                          "PumpswapParser::parse_events"}) =>
        \A i \in 1..Len(instructions) :
            AloneItems(parsed[1], instructions[i]) # <<>>
                => HasIdx(ReturnedItems(parsed[1]), format_idx(instructions[i]))

\* The (outer, inner) pair of numbers an idx "<outer>-<inner>" names.
NumericIdx(idx) ==
    LET dash == CHOOSE k \in 1..Len(idx) : idx[k] = "-"
    IN  <<DigitsValue(SubSeq(idx, 1, dash - 1)), DigitsValue(SubSeq(idx, dash + 1, Len(idx)))>>

PairLeq(x, y) == x[1] < y[1] \/ (x[1] = y[1] /\ x[2] <= y[2])

IsParseInstructions(p) ==
    p.op \in {"PumpfunEventParser::parse_instructions",
              "PumpswapEventParser::parse_instructions"}

\* C8: whatever the order of the instructions, the events parse_instructions of
\* either event parser returns are in non-decreasing order of idx, the idx
\* compared as the pair of numbers (outer, inner): "9-0" is before "10-0".
C8_EventsSortedByIdx ==
    (parsed # <<>> /\ IsParseInstructions(parsed[1])) =>
        \A i, j \in 1..Len(parsed[1].result.events) :
            i < j => PairLeq(NumericIdx(parsed[1].result.events[i].idx),
                             NumericIdx(parsed[1].result.events[j].idx))

\* An instruction at outer index 10 is handed over before one at outer index 9,
\* and the events of both are returned, "9-0" first.
C8_Witness ==
    /\ parsed # <<>>
    /\ IsParseInstructions(parsed[1])
    /\ Len(instructions) >= 2
    /\ instructions[1].outer_index = 10
    /\ instructions[2].outer_index = 9
    /\ Len(parsed[1].result.events) >= 2
    /\ parsed[1].result.events[1].idx = <<"9", "-", "0">>
    /\ parsed[1].result.events[2].idx = <<"1", "0", "-", "0">>

\* The outputs of two runs of the same call on the same transaction.
SameCall(a, b) == a.op = b.op /\ a.arg = b.arg

\* C9: parsing the same transaction twice yields identical output, element order
\* included: whenever two runs made the same call (flatten,
\* get_instruction_by_discriminator, process_events, ..) on the same transaction,
\* the two returned values are equal, whatever order the hash maps iterate in.
C9_TwoRunsSameOutput ==
    \A i, j \in 1..Len(runs) :
        SameCall(runs[i], runs[j]) => runs[i].value = runs[j].value

\* The program ids of the transaction in the walk "all outer instructions, then
\* the inner blocks in encounter order".
ProgramIdsOf(list) == [i \in 1..Len(list) |-> list[i].program_id]

Walk(t) ==
    ProgramIdsOf(t.instructions)
    \o Flatten([b \in 1..Len(t.inner_instructions) |->
                    ProgramIdsOf(t.inner_instructions[b].instructions)])

FirstAt(walk, pid) ==
    CHOOSE i \in 1..Len(walk) : walk[i] = pid /\ \A j \in 1..(i - 1) : walk[j] # pid

\* C10: get_all_program_ids() returns every distinct non-empty program id of the
\* transaction that is not a system or skip program, each exactly once, ordered by
\* first appearance in the walk over the outer instructions and then the inner blocks.
C10_ProgramIdsInFirstAppearanceOrder ==
    ids # <<>> =>
        /\ Range(ids[1]) = (Range(Walk(ctx)) \ {""}) \ (SYSTEM_PROGRAMS \cup SKIP_PROGRAM_IDS)
        /\ \A i, j \in 1..Len(ids[1]) :
              i < j => /\ ids[1][i] # ids[1][j]
                       /\ FirstAt(Walk(ctx), ids[1][i]) < FirstAt(Walk(ctx), ids[1][j])

\* Two ids are returned, the second first met in an inner block, from a walk that
\* repeats an id and also names an empty, system or skip program.
C10_Witness ==
    /\ ids # <<>>
    /\ Len(ids[1]) = 2
    /\ ids[1][2] \notin Range(ProgramIdsOf(ctx.instructions))
    /\ Len(Walk(ctx)) > Cardinality(Range(Walk(ctx)))
    /\ Range(Walk(ctx)) \cap ({""} \cup SYSTEM_PROGRAMS \cup SKIP_PROGRAM_IDS) # {}

\* Every instruction of the transaction with a non-empty program id, in
\* classification order: the outer instructions, then the inner blocks.
OuterClassified(t) ==
    [i \in 1..Len(t.instructions) |->
        ClassifiedInstruction(t.instructions[i].program_id, i - 1, <<>>, t.instructions[i])]

BlockClassified(inner) ==
    [j \in 1..Len(inner.instructions) |->
        ClassifiedInstruction(inner.instructions[j].program_id, inner.index, <<j - 1>>,
                              inner.instructions[j])]

ClassificationOrder(t) ==
    SelectSeq(OuterClassified(t)
              \o Flatten([b \in 1..Len(t.inner_instructions) |->
                              BlockClassified(t.inner_instructions[b])]),
              LAMBDA ci : ci.program_id # "")

MatchesAt(list, arg) ==
    {i \in 1..Len(list) : matches(get_instruction_data(list[i].data), arg[1], arg[2])}

FirstMatch(list, arg) ==
    IF MatchesAt(list, arg) = {} THEN <<>>
    ELSE <<list[CHOOSE i \in MatchesAt(list, arg) : \A j \in MatchesAt(list, arg) : i <= j]>>

\* C11: get_instruction_by_discriminator(bytes, slice_len) returns the first
\* classified instruction, in classification order (outer instructions, then inner
\* blocks), whose decoded data has at least slice_len bytes and starts with the
\* given prefix, and None when no instruction matches.
C11_FirstMatchInClassificationOrder ==
    \A i \in 1..Len(runs) :
        runs[i].op = "get_instruction_by_discriminator" =>
            runs[i].value = FirstMatch(ClassificationOrder(ctx), runs[i].arg)

\* The encoders, by which a decoding is judged.  bs58::encode: a leading zero byte
\* is a '1', the rest is a number written in base 58.
RECURSIVE BytesNumber(_)
BytesNumber(bytes) ==
    IF bytes = <<>> THEN 0
    ELSE 256 * BytesNumber(SubSeq(bytes, 1, Len(bytes) - 1)) + bytes[Len(bytes)]

RECURSIVE Base58Digits(_)
Base58Digits(n) ==
    IF n = 0 THEN <<>> ELSE Append(Base58Digits(n \div 58), Base58Alphabet[(n % 58) + 1])

Base58Encode(bytes) == Repeat("1", LeadingCount(bytes, 0)) \o Base58Digits(BytesNumber(bytes))

\* BASE64_STANDARD.encode: three bytes to four characters, the last group padded
\* with zero bits and '='.
Base64Char(n) == Base64Alphabet[n + 1]

RECURSIVE Base64Encode(_)
Base64Encode(bytes) ==
    IF bytes = <<>> THEN <<>>
    ELSE IF Len(bytes) = 1
    THEN <<Base64Char(bytes[1] \div 4), Base64Char((bytes[1] % 4) * 16), "=", "=">>
    ELSE IF Len(bytes) = 2
    THEN <<Base64Char(bytes[1] \div 4),
           Base64Char((bytes[1] % 4) * 16 + bytes[2] \div 16),
           Base64Char((bytes[2] % 16) * 4), "=">>
    ELSE <<Base64Char(bytes[1] \div 4),
           Base64Char((bytes[1] % 4) * 16 + bytes[2] \div 16),
           Base64Char((bytes[2] % 16) * 4 + bytes[3] \div 64),
           Base64Char(bytes[3] % 64)>>
         \o Base64Encode(SubSeq(bytes, 4, Len(bytes)))

IsBase58(s) == \A i \in 1..Len(s) : InAlphabet(Base58Alphabet, s[i])

\* The only bytes that can encode to s: the whole bytes in the bits of the
\* characters of s before its padding.
Unpadded(s) == SubSeq(s, 1, Len(s) - TrailingCount(s, "="))

RECURSIVE SextetsNumber(_)
SextetsNumber(chars) ==
    IF chars = <<>> THEN 0
    ELSE 64 * SextetsNumber(SubSeq(chars, 1, Len(chars) - 1))
         + IndexIn(Base64Alphabet, chars[Len(chars)])

RECURSIVE FixedBigEndian(_, _)
FixedBigEndian(n, width) ==
    IF width = 0 THEN <<>> ELSE Append(FixedBigEndian(n \div 256, width - 1), n % 256)

WholeBytes(chars) ==
    FixedBigEndian(SextetsNumber(chars) \div Pow(2, (6 * Len(chars)) % 8),
                   (6 * Len(chars)) \div 8)

IsBase64(s) ==
    /\ \A i \in 1..Len(Unpadded(s)) : InAlphabet(Base64Alphabet, s[i])
    /\ Base64Encode(WholeBytes(Unpadded(s))) = s

\* C12: decode_instruction_data never returns an error; the empty string gives the
\* empty buffer; a valid base58 string gives the bytes that encode to it in base58,
\* also when it is valid base64; a string valid only as base64 gives the bytes that
\* encode to it in base64; any other string gives its own UTF-8 bytes.
C12_DecodeBase58ThenBase64ThenRaw ==
    decode_result # <<>> =>
        /\ decode_result[1].kind = "ok"
        /\ encoded = <<>> => decode_result[1].bytes = <<>>
        /\ (encoded # <<>> /\ IsBase58(encoded)) => Base58Encode(decode_result[1].bytes) = encoded
        /\ (encoded # <<>> /\ ~IsBase58(encoded) /\ IsBase64(encoded)) =>
               Base64Encode(decode_result[1].bytes) = encoded
        /\ (encoded # <<>> /\ ~IsBase58(encoded) /\ ~IsBase64(encoded)) =>
               decode_result[1].bytes = as_bytes(encoded)

\* A string that is valid base58 and valid base64 has been decoded, and the two
\* readings differ.
C12_Witness ==
    /\ decode_result # <<>>
    /\ encoded # <<>>
    /\ IsBase58(encoded)
    /\ IsBase64(encoded)
    /\ decode_result[1].bytes # WholeBytes(Unpadded(encoded))

\* C13: tx_status() is Failed whenever meta.err is set, Success when meta.err is
\* absent and both the pre and the post SOL balance arrays are present, and Unknown
\* in every other case.
C13_TxStatus ==
    (view # <<>> /\ view[1].op = "tx_status") =>
        view[1].value =
            IF tx[1].err # <<>> THEN "Failed"
            ELSE IF tx[1].pre_balances # <<>> /\ tx[1].post_balances # <<>> THEN "Success"
            ELSE "Unknown"

\* What a Pumpfun call returned for an instruction: the events or trades that
\* carry the idx of the instruction.
IsPumpfunCall(p) ==
    p.op \in {"PumpfunEventParser::parse_instructions", "PumpfunParser::process_trades"}

ItemType(p, item) ==
    IF IsParseInstructions(p) THEN item.event_type ELSE item.trade_type

InputOf(p, item) == IF IsParseInstructions(p) THEN item.input_token[1] ELSE item.input_token

OutputOf(p, item) ==
    IF IsParseInstructions(p) THEN item.output_token[1] ELSE item.output_token

TokenIs(token, mint, amount, decimals) ==
    /\ token.mint = mint
    /\ token.amount_raw = to_string(amount)
    /\ token.decimals = decimals

\* The bytes of an instruction after the 16 of the discriminator, and the fields
\* of a Trade payload at their places: mint 0..32, sol_amount 32..40, token_amount
\* 40..48, is_buy 48.
PayloadOf(instruction) ==
    SubSeq(get_instruction_data(instruction.data), 17,
           Len(get_instruction_data(instruction.data)))

IsTradeData(instruction) ==
    /\ Len(get_instruction_data(instruction.data)) >= 16 + 105
    /\ SubSeq(get_instruction_data(instruction.data), 1, 16) = pumpfun_events.TRADE

PayloadMint(payload) == bs58_encode(SubSeq(payload, 1, 32))

PayloadSolAmount(payload) == Le(SubSeq(payload, 33, 40))

PayloadTokenAmount(payload) == Le(SubSeq(payload, 41, 48))

PayloadIsBuy(payload) == payload[49]

TradeSides(p, item, payload) ==
    IF PayloadIsBuy(payload) = 1
    THEN /\ TokenIs(InputOf(p, item), SOL_MINT, PayloadSolAmount(payload), 9)
         /\ TokenIs(OutputOf(p, item), PayloadMint(payload), PayloadTokenAmount(payload), 6)
         /\ ItemType(p, item) = "Buy"
    ELSE /\ TokenIs(InputOf(p, item), PayloadMint(payload), PayloadTokenAmount(payload), 6)
         /\ TokenIs(OutputOf(p, item), SOL_MINT, PayloadSolAmount(payload), 9)
         /\ ItemType(p, item) = "Sell"

\* The trade instructions of the list, with a mint that is not SOL, that carry
\* the idx of an item.
TradeInstructionsOf(item) ==
    {i \in 1..Len(instructions) :
        /\ IsTradeData(instructions[i])
        /\ item.idx = format_idx(instructions[i])
        /\ PayloadMint(PayloadOf(instructions[i])) # SOL_MINT
        /\ PayloadIsBuy(PayloadOf(instructions[i])) \in {0, 1}}

\* C14: for every decoded Pumpfun Trade event whose mint is not SOL, with is_buy 1
\* the input token is SOL with raw amount sol_amount and decimals 9, the output
\* token is the mint with raw amount token_amount and decimals 6 and the event and
\* trade type is Buy; with is_buy 0 input and output are exchanged and the type is
\* Sell.
\* An outer instruction and the first instruction of its inner block share an
\* idx: an item answers for one of the trade instructions that carry its idx.
C14_TradeSidesFollowIsBuy ==
    (parsed # <<>> /\ IsPumpfunCall(parsed[1])) =>
        \A k \in 1..Len(ReturnedItems(parsed[1])) :
            (\E i \in TradeInstructionsOf(ReturnedItems(parsed[1])[k]) : TRUE) =>
                \E i \in TradeInstructionsOf(ReturnedItems(parsed[1])[k]) :
                    TradeSides(parsed[1], ReturnedItems(parsed[1])[k],
                               PayloadOf(instructions[i]))

\* A trade with is_buy 0 has been decoded and returned as a Sell trade.
C14_Witness ==
    /\ parsed # <<>>
    /\ parsed[1].op = "PumpfunParser::process_trades"
    /\ \E i \in 1..Len(instructions), k \in 1..Len(parsed[1].result) :
          /\ IsTradeData(instructions[i])
          /\ PayloadIsBuy(PayloadOf(instructions[i])) = 0
          /\ parsed[1].result[k].idx = format_idx(instructions[i])
          /\ parsed[1].result[k].trade_type = "Sell"

(***************************************************************************)
(* C15                                                                     *)
(***************************************************************************)
MintOfAccount(t, account) == t.token_adapter.spl_token_map[account].mint

BuiltBy(ops) == trade # <<>> /\ trade[1].op \in ops /\ trade[1].built # <<>>

\* C15: a trade built from a Pumpswap Buy event has the input raw amount
\* quote_amount_in_with_lp_fee with the mint of user_quote_token_account and the
\* output raw amount base_amount_out with the mint of user_base_token_account; a
\* trade built from a Sell event has the input base_amount_in with the mint of
\* user_base_token_account and the output user_quote_amount_out with the mint of
\* user_quote_token_account.
C15_PumpswapTradeTokens ==
    /\ BuiltBy({"build_pumpswap_buy_trade", "create_buy_trade"}) =>
          /\ trade[1].built[1].input_token.amount_raw =
                 to_string(trade[1].event.data.quote_amount_in_with_lp_fee)
          /\ trade[1].built[1].output_token.amount_raw =
                 to_string(trade[1].event.data.base_amount_out)
    /\ BuiltBy({"create_buy_trade"}) =>
          /\ trade[1].built[1].input_token.mint =
                 MintOfAccount(trade[1], trade[1].event.data.user_quote_token_account)
          /\ trade[1].built[1].output_token.mint =
                 MintOfAccount(trade[1], trade[1].event.data.user_base_token_account)
    /\ BuiltBy({"build_pumpswap_sell_trade", "create_sell_trade"}) =>
          /\ trade[1].built[1].input_token.amount_raw =
                 to_string(trade[1].event.data.base_amount_in)
          /\ trade[1].built[1].output_token.amount_raw =
                 to_string(trade[1].event.data.user_quote_amount_out)
    /\ BuiltBy({"create_sell_trade"}) =>
          /\ trade[1].built[1].input_token.mint =
                 MintOfAccount(trade[1], trade[1].event.data.user_base_token_account)
          /\ trade[1].built[1].output_token.mint =
                 MintOfAccount(trade[1], trade[1].event.data.user_quote_token_account)

\* A Sell of 7 base tokens of MintA for 1 unit of the quote mint, built from the
\* token accounts of the event.
C15_Witness ==
    /\ BuiltBy({"create_sell_trade"})
    /\ trade[1].event.data.base_amount_in = 7
    /\ trade[1].event.data.user_quote_amount_out = 1
    /\ trade[1].built[1].input_token.mint = "MintA"
    /\ trade[1].built[1].output_token.mint = SOL_MINT

\* C16: an instruction data string that is neither valid base58 nor valid base64
\* is treated as an empty byte buffer, so that the instruction is passed over
\* (fewer than 16 bytes) and produces no event.
C16_UndecodableDataIsEmpty ==
    (/\ decode_result # <<>>
     /\ ~IsBase58(encoded)
     /\ ~IsBase64(encoded)) =>
        /\ decode_result[1].kind = "ok"
        /\ decode_result[1].bytes = <<>>

\* C17: the fees of a Pumpswap Buy or Sell trade start with the entry of fee_type
\* "protocol", amount_raw = protocol_fee and recipient = protocol_fee_recipient; a
\* second entry, of fee_type "coinCreator", amount_raw = coin_creator_fee and
\* recipient = coin_creator, is there exactly when coin_creator_fee > 0; there is
\* never a third.
C17_FeeEntries ==
    (trade # <<>> /\ trade[1].built # <<>>) =>
        /\ Len(trade[1].built[1].fees) \in {1, 2}
        /\ trade[1].built[1].fees[1].fee_type = "protocol"
        /\ trade[1].built[1].fees[1].amount_raw = to_string(trade[1].event.data.protocol_fee)
        /\ trade[1].built[1].fees[1].recipient = trade[1].event.data.protocol_fee_recipient
        /\ Len(trade[1].built[1].fees) = 2 <=> trade[1].event.data.coin_creator_fee > 0
        /\ Len(trade[1].built[1].fees) = 2 =>
              /\ trade[1].built[1].fees[2].fee_type = "coinCreator"
              /\ trade[1].built[1].fees[2].amount_raw =
                     to_string(trade[1].event.data.coin_creator_fee)
              /\ trade[1].built[1].fees[2].recipient = trade[1].event.data.coin_creator

\* A Buy with protocol_fee 100 and coin_creator_fee 50 has been built: two entries.
C17_Witness ==
    /\ BuiltBy({"build_pumpswap_buy_trade"})
    /\ trade[1].event.data.protocol_fee = 100
    /\ trade[1].event.data.coin_creator_fee = 50
    /\ Len(trade[1].built[1].fees) = 2

(***************************************************************************)
(* C18                                                                     *)
(***************************************************************************)
\* "<outer_index>-<inner_index>" of the positions the instructions are given.
IdxText(classified) ==
    CASE classified.outer_index = 2 /\ classified.inner_index = <<>> -> <<"2", "-", "0">>
      [] classified.outer_index = 2 /\ classified.inner_index = <<0>> -> <<"2", "-", "0">>
      [] classified.outer_index = 2 /\ classified.inner_index = <<1>> -> <<"2", "-", "1">>
      [] classified.outer_index = 9 /\ classified.inner_index = <<>> -> <<"9", "-", "0">>
      [] classified.outer_index = 9 /\ classified.inner_index = <<1>> -> <<"9", "-", "1">>
      [] classified.outer_index = 10 /\ classified.inner_index = <<>> ->
             <<"1", "0", "-", "0">>

ParseInstructionsOps ==
    {"PumpfunEventParser::parse_instructions", "PumpswapEventParser::parse_instructions"}

EventsReturned ==
    IF parsed # <<>> /\ parsed[1].op \in ParseInstructionsOps /\ parsed[1].result.kind = "ok"
    THEN parsed[1].result.events
    ELSE <<>>

\* C18: every event returned by the Pumpfun and the Pumpswap parse_instructions
\* carries the adapter's signature and slot, the adapter's block time as its
\* timestamp, and the idx "<outer_index>-<inner_index>" of an instruction of the
\* list, with 0 for the inner index of an outer instruction.
C18_EventsTaggedFromAdapter ==
    \A k \in 1..Len(EventsReturned) :
        /\ EventsReturned[k].signature = AdapterSignature
        /\ EventsReturned[k].slot = AdapterSlot
        /\ EventsReturned[k].timestamp = AdapterBlockTime
        /\ \E i \in 1..Len(instructions) :
              /\ Len(get_instruction_data(instructions[i].data)) >= 16
              /\ EventsReturned[k].idx = IdxText(instructions[i])

\* Events of an outer instruction ("10-0") and of an inner one ("9-1") have been
\* returned by the Pumpfun parser.
C18_Witness ==
    /\ parsed # <<>>
    /\ parsed[1].op = "PumpfunEventParser::parse_instructions"
    /\ \E k \in 1..Len(EventsReturned) : EventsReturned[k].idx = <<"1", "0", "-", "0">>
    /\ \E k \in 1..Len(EventsReturned) : EventsReturned[k].idx = <<"9", "-", "1">>

\* C19: a read that returns an error leaves the offset where the read started,
\* read_string included (a length prefix larger than what remains, invalid UTF-8).
C19_FailedReadKeepsOffset ==
    (IsRead(last_read) /\ last_read.kind = "err") => offset = last_read.at

(***************************************************************************)
(* C20                                                                     *)
(***************************************************************************)
StartsWith(bytes, prefix) ==
    Len(bytes) >= Len(prefix) /\ SubSeq(bytes, 1, Len(prefix)) = prefix

\* The data of the one instruction of the list.
OnlyData == get_instruction_data(instructions[1].data)

\* A Trade payload with its 105 mandatory bytes, a Create payload with its
\* mandatory fields (three strings, three keys), a Buy / Sell payload with the
\* timestamp, 13 u64 and 6 keys (304 bytes); any bytes may follow.
HoldsMandatoryTrade(bytes) ==
    StartsWith(bytes, pumpfun_events.TRADE) /\ Len(bytes) - 16 >= 105

HoldsMandatoryCreate(bytes) == StartsWith(bytes, pumpfun_events.CREATE \o CreatePayload)

HoldsMandatorySwap(bytes) ==
    /\ StartsWith(bytes, pumpswap_events.BUY) \/ StartsWith(bytes, pumpswap_events.SELL)
    /\ Len(bytes) - 16 >= 304

\* C20: trailing bytes never turn a decodable event into a failure: the one
\* instruction of a list, holding the mandatory part of a Trade, a Create, a Buy or
\* a Sell followed by any number of bytes, is decoded into one event.
C20_TrailingBytesNeverFail ==
    (parsed # <<>> /\ Len(instructions) = 1) =>
        /\ (/\ parsed[1].op = "PumpfunEventParser::parse_instructions"
            /\ HoldsMandatoryTrade(OnlyData) \/ HoldsMandatoryCreate(OnlyData))
              => (parsed[1].result.kind = "ok" /\ Len(parsed[1].result.events) = 1)
        /\ (/\ parsed[1].op = "PumpswapEventParser::parse_instructions"
            /\ HoldsMandatorySwap(OnlyData))
              => (parsed[1].result.kind = "ok" /\ Len(parsed[1].result.events) = 1)

\* C21: for all u64 values of protocol_fee and coin_creator_fee the builders of
\* the Pumpswap Buy and Sell trades neither panic nor wrap: the trade is built and
\* the amount of its fee is that of the exact sum of the two values.
C21_TotalFeeIsExactSum ==
    (trade # <<>> /\ trade[1].op \in {"build_pumpswap_buy_trade", "build_pumpswap_sell_trade"}) =>
        /\ trade[1].built # <<>>
        /\ trade[1].built[1].fee.amount =
               convert_to_ui_amount(trade[1].event.data.protocol_fee
                                    + trade[1].event.data.coin_creator_fee,
                                    trade[1].built[1].fee.decimals)

(***************************************************************************)
(* C22                                                                     *)
(***************************************************************************)
\* Where the i64 timestamp lies in the payload after the discriminator: after
\* mint, sol_amount, token_amount, is_buy, user in a Trade; after the mandatory
\* fields and the creator in a Create; after user, mint, bonding_curve in a
\* Complete; after user, mint, three u64, bonding_curve in a Migrate; first in
\* the Pumpswap events.
TimestampOffset(bytes) ==
    CASE StartsWith(bytes, pumpfun_events.TRADE) -> 81
      [] StartsWith(bytes, pumpfun_events.CREATE) -> Len(CreatePayload) + 32
      [] StartsWith(bytes, pumpfun_events.COMPLETE) -> 96
      [] StartsWith(bytes, pumpfun_events.MIGRATE) -> 120
      [] OTHER -> 0

NegativeTimestamp(bytes) ==
    /\ Len(bytes) >= 16 + TimestampOffset(bytes) + 8
    /\ I64Le(SubSeq(bytes, 16 + TimestampOffset(bytes) + 1,
                    16 + TimestampOffset(bytes) + 8)) < 0

DecodedTimestamp ==
    IF parsed[1].op = "PumpfunEventParser::decode"
    THEN parsed[1].result.event[1].timestamp
    ELSE parsed[1].result.data[1].timestamp

\* C22: every event decoder of Pumpfun (Trade, Create, Complete, Migrate) and of
\* Pumpswap (Buy, Sell, CreatePool, AddLiquidity, RemoveLiquidity) decodes a
\* negative i64 timestamp of the payload as the timestamp 0.
C22_NegativeTimestampIsZero ==
    (/\ parsed # <<>>
     /\ parsed[1].op \in {"PumpfunEventParser::decode", "PumpswapEventParser::decode_event"}
     /\ parsed[1].result.kind = "ok"
     /\ NegativeTimestamp(OnlyData)) => DecodedTimestamp = 0

\* C23: the events of the instructions of one transaction, which lie at
\* different positions, have different idx values; so have those of outer
\* instruction k and of the first inner instruction of the block of k.
C23_IdxIdentifiesInstruction ==
    \A j, k \in 1..Len(EventsReturned) :
        j # k => EventsReturned[j].idx # EventsReturned[k].idx

(***************************************************************************)
(* C24, C25                                                                *)
(***************************************************************************)
\* The post token balances of the transaction that name a mint.
PostBalances ==
    IF tx = <<>> \/ tx[1].post_token_balances = <<>> THEN <<>>
    ELSE SelectSeq(tx[1].post_token_balances[1], LAMBDA b : b.mint # "")

\* The first post token balance of an account, and of a mint.
FirstOfAccount(i) == \A j \in 1..(i - 1) : PostBalances[j].account # PostBalances[i].account

FirstOfMint(i) == \A j \in 1..(i - 1) : PostBalances[j].mint # PostBalances[i].mint

\* C24: after the construction of the adapter the entry of spl_token_map for a
\* token account of the post token balances holds the mint and the decimals of
\* that balance, and spl_decimals_map holds for a mint of the post token balances
\* the decimals of that balance, whatever the instructions of the transaction.
C24_PostBalancesAreAuthoritative ==
    adapter # <<>> =>
        \A i \in 1..Len(PostBalances) :
            /\ FirstOfAccount(i) =>
                  /\ Has(adapter[1].spl_token_map, PostBalances[i].account)
                  /\ adapter[1].spl_token_map[PostBalances[i].account].mint
                         = PostBalances[i].mint
                  /\ adapter[1].spl_token_map[PostBalances[i].account].decimals
                         = PostBalances[i].ui_token_amount.decimals
            /\ FirstOfMint(i) =>
                  /\ Has(adapter[1].spl_decimals_map, PostBalances[i].mint)
                  /\ adapter[1].spl_decimals_map[PostBalances[i].mint]
                         = PostBalances[i].ui_token_amount.decimals

\* C25: after the construction of the adapter spl_decimals_map maps the native
\* SOL mint to 9 and spl_token_map has an entry under the SOL mint whose decimals
\* is 9, whatever the balances and the instructions of the transaction.
C25_NativeSolHasNineDecimals ==
    adapter # <<>> =>
        /\ Has(adapter[1].spl_decimals_map, TOKENS.SOL)
        /\ adapter[1].spl_decimals_map[TOKENS.SOL] = 9
        /\ Has(adapter[1].spl_token_map, TOKENS.SOL)
        /\ adapter[1].spl_token_map[TOKENS.SOL].decimals = 9

(***************************************************************************)
(* C26                                                                     *)
(***************************************************************************)
RECURSIVE SumOver(_, _)
SumOver(f, S) ==
    IF S = {} THEN 0
    ELSE LET x == CHOOSE y \in S : TRUE IN f[x] + SumOver(f, S \ {x})

BalanceOf(list, account) == IF list = <<>> THEN <<>> ELSE FindBalance(list[1], account)

HoldsBefore(account) ==
    /\ BalanceOf(tx[1].pre_token_balances, account) # <<>>
    /\ BalanceOf(tx[1].pre_token_balances, account)[1].mint = "MintA"

HoldsAfter(account) ==
    /\ BalanceOf(tx[1].post_token_balances, account) # <<>>
    /\ BalanceOf(tx[1].post_token_balances, account)[1].mint = "MintA"

\* The token accounts of MintA that the owner key stands for.
TokenAccountsOf(key) ==
    {a \in TokenAccounts :
        (HoldsBefore(a) \/ HoldsAfter(a)) /\ ChangeKey(tx[1], a, TRUE) = key}

TokenChangeOf ==
    [a \in {x \in TokenAccounts : HoldsBefore(x) /\ HoldsAfter(x)} |->
        Raw(BalanceOf(tx[1].post_token_balances, a)[1].ui_token_amount)
        - Raw(BalanceOf(tx[1].pre_token_balances, a)[1].ui_token_amount)]

\* The positions of the account keys that the owner key stands for, and the
\* change of the SOL balance at a position.
PositionsOf(key) ==
    {i \in 1..Len(adapter[1].account_keys) :
        ChangeKey(tx[1], adapter[1].account_keys[i], TRUE) = key}

LamportsAt(list, i) == IF i <= Len(list[1]) THEN list[1][i] ELSE 0

SolChangeOf ==
    [i \in 1..Len(adapter[1].account_keys) |->
        LamportsAt(tx[1].post_balances, i) - LamportsAt(tx[1].pre_balances, i)]

OwnerKeys == 1..(MaxKey + 3)

\* C26: with is_owner = true, when several accounts resolve to the same owner key
\* the change reported for that owner (and mint) is the sum of the changes of all
\* those accounts: several token accounts of one owner holding the same mint
\* before and after, or several account keys mapped to one owner in the SOL map.
C26_OwnerChangeIsSum ==
    /\ (view # <<>> /\ view[1].op = "get_account_token_balance_changes" /\ view[1].arg) =>
          \A key \in OwnerKeys :
              (/\ Cardinality(TokenAccountsOf(key)) >= 2
               /\ \A a \in TokenAccountsOf(key) : HoldsBefore(a) /\ HoldsAfter(a)
               /\ SumOver(TokenChangeOf, TokenAccountsOf(key)) # 0) =>
                  /\ Has(view[1].value, key)
                  /\ Has(view[1].value[key], "MintA")
                  /\ Raw(view[1].value[key]["MintA"].change)
                         = SumOver(TokenChangeOf, TokenAccountsOf(key))
    /\ (/\ view # <<>> /\ view[1].op = "get_account_sol_balance_changes" /\ view[1].arg
        /\ tx[1].pre_balances # <<>> /\ tx[1].post_balances # <<>>) =>
          \A key \in OwnerKeys :
              (/\ Cardinality(PositionsOf(key)) >= 2
               /\ SumOver(SolChangeOf, PositionsOf(key)) # 0) =>
                  /\ Has(view[1].value, key)
                  /\ Raw(view[1].value[key].change) = SumOver(SolChangeOf, PositionsOf(key))

(***************************************************************************)
(* C27                                                                     *)
(***************************************************************************)
Occurrences(list, x) == Cardinality({i \in 1..Len(list) : list[i] = x})

\* The instruction of the transaction at the position a classified instruction
\* carries: outer instruction outer_index, or instruction inner_index of an inner
\* block whose index is outer_index.
AtItsPosition(t, ci) ==
    IF ci.inner_index = <<>>
    THEN /\ ci.outer_index < Len(t.instructions)
         /\ t.instructions[ci.outer_index + 1] = ci.data
    ELSE \E b \in 1..Len(t.inner_instructions) :
            /\ t.inner_instructions[b].index = ci.outer_index
            /\ ci.inner_index[1] < Len(t.inner_instructions[b].instructions)
            /\ t.inner_instructions[b].instructions[ci.inner_index[1] + 1] = ci.data

\* C27: InstructionClassifier::new holds exactly one ClassifiedInstruction for each
\* outer or inner instruction with a non-empty program id, carrying its position
\* (outer k: outer_index k, no inner_index; j-th of the block with index k:
\* outer_index k, inner_index j) and its program id; get_instructions(p) returns
\* those of program p, the outer ones and then the inner ones in encounter order,
\* and the empty list for a program that does not occur.
C27_OneClassifiedPerInstruction ==
    \A i \in 1..Len(runs) :
        /\ runs[i].op = "flatten" =>
              /\ Len(runs[i].value) = Len(ClassificationOrder(ctx))
              /\ \A k \in 1..Len(runs[i].value) :
                    /\ Occurrences(runs[i].value, runs[i].value[k])
                           = Occurrences(ClassificationOrder(ctx), runs[i].value[k])
                    /\ AtItsPosition(ctx, runs[i].value[k])
                    /\ runs[i].value[k].program_id = runs[i].value[k].data.program_id
                    /\ runs[i].value[k].program_id # ""
        /\ runs[i].op = "get_instructions" =>
              runs[i].value = SelectSeq(ClassificationOrder(ctx),
                                        LAMBDA ci : ci.program_id = runs[i].arg[1])

\* get_instructions has returned an outer instruction followed by the second
\* instruction of an inner block, for a transaction that also holds an
\* instruction without program id.
C27_Witness ==
    \E i \in 1..Len(runs) :
        /\ runs[i].op = "get_instructions"
        /\ Len(runs[i].value) >= 2
        /\ runs[i].value[1].inner_index = <<>>
        /\ runs[i].value[Len(runs[i].value)].inner_index = <<1>>
        /\ \E k \in 1..Len(ctx.instructions) : ctx.instructions[k].program_id = ""

(***************************************************************************)
(* C28                                                                     *)
(***************************************************************************)
\* The instructions of the list that hold a Pumpfun Buy or Sell event.
HoldsMemeEvent(i) ==
    LET decoded == pumpfun_decode(get_instruction_data(instructions[i].data))
    IN  /\ decoded # <<>>
        /\ decoded[1].kind = "ok"
        /\ decoded[1].event[1].event_type \in {"Buy", "Sell"}

\* The 4th account of the instruction immediately before instruction i.
CurveBefore(i) ==
    IF i > 1 /\ Len(instructions[i - 1].data.accounts) >= 4
    THEN <<instructions[i - 1].data.accounts[4]>>
    ELSE <<>>

MemeEventsReturned ==
    IF parsed # <<>> /\ parsed[1].op = "PumpfunEventParser::parse_instructions"
    THEN EventsReturned
    ELSE <<>>

\* C28: the bonding_curve of a Pumpfun Buy or Sell event is the 4th account of
\* the instruction immediately before the event's own instruction in the
\* classified list, when the event's instruction is not the first of the list
\* and that instruction has at least 4 accounts; otherwise it is absent.
C28_BondingCurveOfPreviousInstruction ==
    /\ \A k \in 1..Len(MemeEventsReturned) :
          MemeEventsReturned[k].event_type \in {"Buy", "Sell"} =>
              \E i \in 1..Len(instructions) :
                  /\ HoldsMemeEvent(i)
                  /\ MemeEventsReturned[k].idx = IdxText(instructions[i])
                  /\ MemeEventsReturned[k].bonding_curve = CurveBefore(i)
    /\ MemeEventsReturned # <<>> =>
          Cardinality({k \in 1..Len(MemeEventsReturned) :
                          /\ MemeEventsReturned[k].event_type \in {"Buy", "Sell"}
                          /\ MemeEventsReturned[k].bonding_curve # <<>>})
              = Cardinality({i \in 1..Len(instructions) :
                                HoldsMemeEvent(i) /\ CurveBefore(i) # <<>>})

\* A list of three trades has been parsed: the event of the first has no bonding
\* curve, that of the second has the 4th account of the first, and that of the
\* third has none because the second instruction has three accounts.
C28_Witness ==
    /\ Len(MemeEventsReturned) = 3
    /\ Len(instructions[1].data.accounts) = 5
    /\ Len(instructions[2].data.accounts) = 3
    /\ Cardinality({k \in 1..3 : MemeEventsReturned[k].bonding_curve =
                                     <<instructions[1].data.accounts[4]>>}) = 1
    /\ Cardinality({k \in 1..3 : MemeEventsReturned[k].bonding_curve = <<>>}) = 2

(***************************************************************************)
(* C29                                                                     *)
(***************************************************************************)
FeeAttached == trade # <<>> /\ trade[1].op = "attach_trade_fee"

\* C29: attach_trade_fee sets trade.fee to the transaction fee (mint "SOL",
\* decimals 9, amount_raw the decimal text of meta.fee) when that fee is not
\* zero, leaves the fee as it was when meta.fee is zero or absent, and changes no
\* other field of the trade.
C29_AttachTradeFee ==
    FeeAttached =>
        /\ UnwrapOr(trade[1].meta_fee, 0) # 0 =>
              /\ trade[1].built[1].fee.mint = "SOL"
              /\ trade[1].built[1].fee.decimals = 9
              /\ trade[1].built[1].fee.amount_raw = to_string(trade[1].meta_fee[1])
        /\ UnwrapOr(trade[1].meta_fee, 0) = 0 =>
              trade[1].built[1].fee = trade[1].given.fee
        /\ DOMAIN trade[1].built[1] = DOMAIN trade[1].given
        /\ \A field \in DOMAIN trade[1].given \ {"fee"} :
              trade[1].built[1][field] = trade[1].given[field]

\* A fee of five lamports has replaced the fee of a trade that has two fees[]
\* entries and a user.
C29_Witness ==
    /\ FeeAttached
    /\ trade[1].meta_fee = <<5>>
    /\ trade[1].given.fee.mint # "SOL"
    /\ trade[1].built[1].fee.amount_raw = <<"5">>
    /\ Len(trade[1].built[1].fees) = 2
    /\ trade[1].built[1].user # <<>>

(***************************************************************************)
(* C30                                                                     *)
(***************************************************************************)
\* The number of bytes a successful read consumes.
Consumed(r) ==
    CASE r.op = "read_u8" -> 1
      [] r.op = "read_u16" -> 2
      [] r.op \in {"read_u64", "read_i64"} -> 8
      [] r.op = "read_pubkey" -> 32
      [] r.op = "read_fixed_array" -> r.requested
      [] r.op = "read_string" -> 4 + r.requested

\* C30: over any sequence of reads the offset never decreases, a successful
\* read advances it by exactly the bytes it consumed (1, 2, 8, 8, n, 32 and
\* 4 + length for read_u8, read_u16, read_u64, read_i64, read_fixed_array(n),
\* read_pubkey and read_string), and remaining() is buffer length - offset.
C30_ForwardOnly ==
    [][/\ offset' >= offset
       /\ (IsRead(last_read') /\ last_read'.kind = "ok") =>
              /\ offset' = offset + Consumed(last_read')
              /\ Len(last_read'.bytes) = IF last_read'.op = "read_string"
                                         THEN Consumed(last_read') - 4
                                         ELSE Consumed(last_read')
       /\ last_read'.op = "remaining" =>
              /\ offset' = offset
              /\ last_read'.requested = Len(buffer) - offset]_vars

\* A string of one byte has been read at the head of the buffer: the offset
\* went from 0 to 5.
C30_Witness ==
    /\ last_read.op = "read_string"
    /\ last_read.kind = "ok"
    /\ last_read.requested = 1
    /\ last_read.at = 0
    /\ offset = 5

=============================================================================
